---- MODULE Spec2Model ----
(***************************************************************************)
(* Model of the task-orchestration engine of kite_ai:                      *)
(*   functions/activity.py   execute, sem_task, random_activity_task,      *)
(*                           join_discord, push_social_tasks, bound_eoa    *)
(*   functions/controller.py Controller.build_actions, onboard_to_portal   *)
(*                                                                         *)
(* Two specifications share the module.                                    *)
(*   Spec       the Wallet Scheduler running one of the four task          *)
(*              functions over a list of wallets (cooperative event loop:  *)
(*              one action of the model is the code between two awaits).   *)
(*   SpecBuild  one call of build_actions on a remote snapshot, a wallet   *)
(*              record and the random draws: up to the sleep after the     *)
(*              onboarding, then to its end, or cancelled on the way.      *)
(***************************************************************************)
EXTENDS Integers, Sequences, FiniteSets, TLC

VARIABLES
    \* ---- execute() ----
    wallets,        \* the list handed to execute (wallet ids, in list order)
    threads,        \* Settings().threads
    shuffle_wallets,\* Settings().shuffle_wallets
    task_func,      \* the task function handed to execute
    pause,          \* random_pause_wallet_after_completion
    pause_range,    \* <<min, max>> of Settings().random_pause_wallet_after_completion_*
    pause0,         \* the pause execute was called with
    fam,            \* the family of runs this run belongs to (see RunFamilies)
    epc,            \* position of execute
    sem,            \* free permits of the asyncio.Semaphore of the pass
    \* ---- one sem_task per entry of the task list ----
    twal,           \* task -> wallet id
    tpc,            \* task -> position
    tres,           \* task -> how the sem_task ended
    depth,          \* task -> pending outer invocations of the task function (restarts)
    left,           \* task -> frames still to unwind
    how,            \* task -> what is unwinding
    catalog,        \* task -> actions list of the running invocation
    idx,            \* task -> position in the catalog
    client,         \* task -> proxy the Client of the running invocation was built with
    started,        \* task -> oids of the actions the running invocation has invoked
    paused,         \* task -> portal.paused of the Controller of the running invocation
    status,         \* task -> status the action before the pacing sleep returned
    level,          \* task -> log level lines 49-58 and 69 gave that action
    caught,         \* task -> exception class the handlers of lines 57-70 caught from it
    booted,         \* task -> what the onboarding answered, once build_actions is at
                    \*         the sleep of line 183 (None before and after)
    orphan,         \* wallet -> task functions still alive that their sem_task abandoned
    \* ---- wallet records and files ----
    proxy,          \* wallet -> wallet.proxy (session object)
    db_proxy,       \* wallet -> committed wallet.proxy
    files,          \* file name -> lines
    snap,           \* wallet -> what the platform and the chain answer for it
    next_faucet_time,           \* wallet -> committed wallet.next_faucet_time
    next_ai_conversation_time,  \* wallet -> committed wallet.next_ai_conversation_time
    \* ---- instrumentation ----
    inflight,       \* wallet -> actions of its catalog in flight
    nfail,          \* wallet -> transport failures caught in this pass
    fo_head,        \* wallet -> first line of reserve_proxy.txt when its last failover read the pool
    pool0,          \* reserve_proxy.txt at the start of the pass
    log,            \* log lines of the pass, as <<source, wallet id, exception>>
    nupd,           \* wallet -> calls of update_db_by_user_info that ended in this pass
    \* ---- SpecBuild ----
    bpc,            \* position of the build harness
    bin,            \* inputs of build_actions
    bout,           \* result of build_actions
    \* ---- SpecActivity ----
    apc,            \* position of the activity() harness
    ain,            \* wallets of the database and the two filters of Settings
    aout            \* the wallet list activity() goes on with

evars == <<wallets, threads, shuffle_wallets, task_func, pause, pause_range, pause0, fam,
           epc, sem>>
tvars == <<twal, tpc, tres, depth, left, how, catalog, idx, client, started,
           paused, status, level, caught, booted, orphan>>
wvars == <<proxy, db_proxy, files, snap, next_faucet_time, next_ai_conversation_time>>
hvars == <<inflight, nfail, fo_head, pool0, log, nupd>>
bvars == <<bpc, bin, bout>>
avars == <<apc, ain, aout>>
vars  == <<evars, tvars, wvars, hvars, bvars, avars>>

(***************************************************************************)
(* Bounds of the model.                                                    *)
(***************************************************************************)
MaxWallets  == 2    \* wallets handed to execute
MaxThreads  == 2    \* Settings().threads ranges over 1..MaxThreads
MaxPool     == 2    \* lines of reserve_proxy.txt at start
MaxRestarts == 3    \* cap on the recursion depth of a task function
MaxCount    == 1    \* upper end of swaps_count / ai_dialogs_count
MaxBadges   == 2    \* eligible badges returned by get_badges
MaxShuffle  == 6    \* longest shuffled tier enumerated
MaxDbWallets == 3   \* wallets db.all(Wallet) returns to activity()
MaxOrphan   == 1    \* task functions alive at a time whose sem_task has ended

(***************************************************************************)
(* Status strings.  The code only ever tests a status for a substring, so  *)
(* a string is its text plus the set of markers it contains.               *)
(***************************************************************************)
Str(text, marks) == [text |-> text, marks |-> marks]
Contains(s, marker) == marker \in s.marks

OkStr     == Str("ok", {})
FailedStr == Str("Failed | ...", {"Failed"})
EmptyStr  == Str("", {})
NoneVal   == Str("None", {"<None>"})
Falsy(s)  == s = EmptyStr \/ s = NoneVal

Min(a, b) == IF a <= b THEN a ELSE b

\* the reserve list named by random_activity_task, join_discord and
\* push_social_tasks (lines 62, 102, 130) and the one named by bound_eoa (170)
ReserveFile  == "reserve_proxy.txt"
ReserverFile == "reserver_proxy.txt"
NoFiles == [n \in {ReserveFile, ReserverFile} |-> <<>>]

(***************************************************************************)
(* Controller.build_actions and Controller.onboard_to_portal.              *)
(*                                                                         *)
(* The input record `in` holds what the collaborators answer and what the  *)
(* random module draws during one build:                                   *)
(*   balance0, balance1     client.wallet.balance() before / after the     *)
(*                          bootstrap (0 or a positive amount)             *)
(*   onboard_choice         random.choice(onboard_actions): TRUE is the    *)
(*                          onchain_faucet=True lambda                     *)
(*   ob_raise               the call of the bootstrap that raises          *)
(*                          ("on_chain_faucet_json": the faucet raises on  *)
(*                          the body of its answer, after the store;       *)
(*                          "balance": the balance re-fetch of line 186)   *)
(*   ob_quiz_completed, ob_faucet_claimable, ob_flow_res, ob_ocf_res,      *)
(*   ob_faucet_res, ob_portal_balance_ok, ob_withdraw_res                  *)
(*                          answers seen by onboard_to_portal              *)
(*   faucet_claimable .. staked_nonempty                                   *)
(*                          answers and draws seen by build_actions        *)
(*   b_raise, b_exc         the call outside the bootstrap that raises:    *)
(*                          balance (line 169), get_user_info (line 194)   *)
(*                          or get_stake_amounts (line 258), and the class *)
(*                          of its exception                               *)
(*   now                    datetime.now(), in minutes                     *)
(* The wallet's cooldowns are passed separately (nft, nai).                *)
(***************************************************************************)
Now == 10                       \* datetime.now() of a build, in minutes
FaucetCooldown == 1441          \* timedelta(minutes=1441)
NoneTime == -1                  \* a cooldown column holding None

\* `None <= datetime` raises TypeError: the comparisons of lines 128, 227
\* and 248 have no test for None in front of them
CmpRaises(threshold) == threshold = NoneTime

Act(kind, arg) == [kind |-> kind, arg |-> arg]

Repeat(x, n) == [i \in 1..n |-> x]

Ret(val, nft)   == [kind |-> "return", val |-> val, exc |-> "", nft |-> nft]
Raise(exc, nft) == [kind |-> "raise", val |-> NoneVal, exc |-> exc, nft |-> nft]

\* `'Failed' not in result` (lines 124, 131, 141) raises TypeError when the
\* portal call answered None (r.json().get(...) without the key)
InRaises(result) == result = NoneVal

\* self.portal.on_chain_faucet(): the request raises or is answered
\* neither <= 202 nor 429 (line 303) and nothing is stored; or the answer
\* is <= 202 or 429, the cooldown is stored and committed (lines 293-294,
\* 298-299) and then r.json().get("message") (lines 295, 301) raises on a
\* body that is not a JSON object, or gives what the call returns
OnChainFaucetCall(in, nft) ==
    IF in.ob_raise = "on_chain_faucet" THEN Raise("Exception", nft)
    ELSE IF in.ob_raise = "on_chain_faucet_json"
         THEN Raise("Exception", in.now + FaucetCooldown)
    ELSE Ret(in.ob_ocf_res, in.now + FaucetCooldown)

OnboardResult(result, nft) ==
    IF Falsy(result) THEN Ret(Str("Skipping Onboard", {}), nft)
    ELSE Ret(Str("Onboard Completed", {}), nft)

\* the part of onboard_to_portal before the faucet branch
OnboardQuiz(in, nft) ==
    IF in.ob_raise = "get_user_info" THEN Raise("Exception", nft)
    ELSE IF ~in.ob_quiz_completed
         THEN IF in.ob_raise = "onboard_flow" THEN Raise("Exception", nft)
              ELSE IF InRaises(in.ob_flow_res) THEN Raise("TypeError", nft)
              ELSE Ret(in.ob_flow_res, nft)
         ELSE Ret(NoneVal, nft)

\* onboard_to_portal(onchain_faucet=True)
OnboardOnchain(in, nft) ==
    LET q == OnboardQuiz(in, nft) IN
    IF q.kind = "raise" THEN q
    ELSE IF CmpRaises(nft) THEN Raise("TypeError", nft)
    ELSE IF nft <= in.now
         THEN LET f == OnChainFaucetCall(in, nft) IN
              IF f.kind = "raise" THEN f
              ELSE IF InRaises(f.val) THEN Raise("TypeError", f.nft)
              ELSE OnboardResult(f.val, f.nft)
         ELSE OnboardResult(q.val, nft)

\* onboard_to_portal(onchain_faucet=False)
OnboardCaptcha(in, nft) ==
    LET q == OnboardQuiz(in, nft) IN
    IF q.kind = "raise" THEN q
    ELSE IF in.ob_faucet_claimable
         THEN IF in.ob_raise = "faucet" THEN Raise("Exception", nft)
              ELSE IF InRaises(in.ob_faucet_res) THEN Raise("TypeError", nft)
              ELSE IF ~Contains(in.ob_faucet_res, "Failed")
                   THEN IF in.ob_raise = "get_balances" THEN Raise("Exception", nft)
                        ELSE IF in.ob_portal_balance_ok
                             THEN IF in.ob_raise = "withdrawal_from_portal"
                                  THEN Raise("Exception", nft)
                                  ELSE OnboardResult(in.ob_withdraw_res, nft)
                             ELSE OnboardOnchain(in, nft)
                   ELSE OnboardResult(in.ob_faucet_res, nft)
         ELSE OnboardResult(q.val, nft)

onboard_to_portal(in, onchain_faucet, nft) ==
    IF onchain_faucet THEN OnboardOnchain(in, nft) ELSE OnboardCaptcha(in, nft)

\* a bootstrap that swallows the exception of the onboarding call
BootstrapSwallow(in, nft) ==
    IF in.balance0 = 0
    THEN LET ob == onboard_to_portal(in, in.onboard_choice, nft) IN
         [kind |-> "return", val |-> IF ob.kind = "raise" THEN OkStr ELSE ob.val,
          exc |-> "", nft |-> ob.nft, balance |-> in.balance0]
    ELSE [kind |-> "return", val |-> NoneVal, exc |-> "", nft |-> nft,
          balance |-> in.balance0]

\* lines 169-183: the bootstrap of a zero-balance wallet up to the sleep of
\* line 183.  Returns what the onboarding answered (None when there was no
\* onboarding), or the RuntimeError line 192 makes of its exception.
Bootstrap(in, nft) ==
    IF in.balance0 = 0
    THEN LET ob == onboard_to_portal(in, in.onboard_choice, nft) IN
         IF ob.kind = "raise" THEN Raise("RuntimeError", ob.nft)
         ELSE [kind |-> "return", val |-> ob.val, exc |-> "", nft |-> ob.nft,
               balance |-> in.balance0]
    ELSE [kind |-> "return", val |-> NoneVal, exc |-> "", nft |-> nft,
          balance |-> in.balance0]

\* an immediate-priority tier that takes the Twitter bind first
ImmediateTierBindFirst(in) ==
    (IF in.twitter_token /\ in.twitter_status \in {"ok", "none"} /\ ~in.twitter_linked
     THEN <<Act("bind_twitter", 0)>> ELSE <<>>)
    \o (IF ~in.onboarding_quiz_completed THEN <<Act("onboard_flow", 0)>> ELSE <<>>)

\* lines 200-206: the immediate-priority tier
ImmediateTier(in) ==
    (IF ~in.onboarding_quiz_completed THEN <<Act("onboard_flow", 0)>> ELSE <<>>)
    \o (IF in.twitter_token /\ in.twitter_status \in {"ok", "none"} /\ ~in.twitter_linked
        THEN <<Act("bind_twitter", 0)>> ELSE <<>>)

\* the badge lambdas all close over the comprehension variable `badge`
EligibleBadges(in) == SelectSeq(in.badges, LAMBDA b : b.eligible)
BadgeActions(in) ==
    LET eb == EligibleBadges(in) IN
    IF in.badges_minted \/ Len(eb) = 0 THEN <<>>
    ELSE Repeat(Act("claim_badge", eb[Len(eb)].id), Len(eb))

\* lines 227 and 248: self.wallet.next_faucet_time <= now
FaucetEligible(threshold, now) == threshold <= now

\* line 230: next_ai_conversation_time is None or ... <= now
AiEligible(threshold, now) == threshold = NoneTime \/ threshold <= now

\* lines 234-255: the on-chain block, shuffled part
OnchainMid(in, balance, nft) ==
    IF balance > 0
    THEN Repeat(Act("swap", 0), in.swaps_count)
         \o (IF ~in.bridge_status THEN <<Act("bridge", 0)>> ELSE <<>>)
         \o (IF in.multisig = "Failed" THEN <<>>
             ELSE IF in.multisig = "empty" THEN Repeat(Act("create_account", 0), 2)
             ELSE IF FaucetEligible(nft, in.now)
                  THEN Repeat(Act("create_account", 0), 2)
                       \o Repeat(Act("send_native_to_multisig", 0), in.deposits)
                  ELSE <<>>)
    ELSE <<>>

\* lines 254-255: the tail tier
TailTier(in, balance, nft) ==
    IF balance > 0 /\ in.multisig = "some" /\ FaucetEligible(nft, in.now)
    THEN Repeat(Act("send_native_from_safe", 0), in.withdraws)
    ELSE <<>>

\* lines 257-271
StakingMid(in) ==
    IF in.staking_le2
    THEN (IF in.portal_balance_gt THEN <<Act("stake", 0)>> ELSE <<>>)
         \o (IF in.chance = 5 /\ in.staked_nonempty
             THEN <<Act("claim_staking_rewards", 0)>> ELSE <<>>)
    ELSE <<>>

\* a build that leaves the social-points grab out
SocialGrabNone == <<>>

\* line 273: build_actions.append(lambda: self.portal.grab_points_social()),
\* under no condition
SocialGrab == <<Act("grab_points_social", 0)>>

\* lines 196-273: build_actions (the middle list) before the shuffle
MiddleTier(in, balance, nft, nai) ==
    (IF in.faucet_claimable THEN <<Act("faucet", 0)>> ELSE <<>>)
    \o (IF in.twitter_token /\ in.twitter_status \in {"ok", "none"}
           /\ in.twitter_linked /\ in.twitter_tasks
        THEN <<Act("twitter_tasks", 0)>> ELSE <<>>)
    \o (IF ~in.daily_quiz_completed THEN <<Act("daily_quest_flow", 0)>> ELSE <<>>)
    \o BadgeActions(in)
    \o (IF FaucetEligible(nft, in.now) THEN <<Act("on_chain_faucet", 0)>> ELSE <<>>)
    \o (IF AiEligible(nai, in.now)
        THEN Repeat(Act("ai_agent_chat_flow", 0), in.ai_dialogs_count) ELSE <<>>)
    \o OnchainMid(in, balance, nft)
    \o StakingMid(in)
    \o SocialGrab

\* every lambda is an object of its own: tag it with its creation position
Tag(s, base) == [i \in 1..Len(s) |-> [kind |-> s[i].kind, arg |-> s[i].arg, oid |-> base + i]]

NoTiers(exc, nft) ==
    [kind |-> "raise", exc |-> exc, nft |-> nft,
     actions |-> <<>>, build_actions |-> <<>>, end_actions |-> <<>>]

\* lines 194-278, with the balance the bootstrap left: the three lists as
\* they stand at line 278, or the exception that leaves the build, that of
\* get_user_info (line 194), of the comparison with None of line 227 or of
\* get_stake_amounts (line 258), whichever comes first
BuildRest(in, balance, nft, nai) ==
    IF in.b_raise = "get_user_info" THEN NoTiers(in.b_exc, nft)
    ELSE IF CmpRaises(nft) THEN NoTiers("TypeError", nft)
    ELSE IF in.b_raise = "get_stake_amounts" THEN NoTiers(in.b_exc, nft)
    ELSE LET imm == ImmediateTier(in)
             mid == MiddleTier(in, balance, nft, nai)
             end == TailTier(in, balance, nft)
         IN [kind |-> "return", exc |-> "", nft |-> nft,
             actions |-> Tag(imm, 0),
             build_actions |-> Tag(mid, Len(imm)),
             end_actions |-> Tag(end, Len(imm) + Len(mid))]

\* lines 185-278, after the sleep of line 183 when the onboarding answered
\* val: a failure string raises at line 189 and the balance re-fetch of line
\* 186 may raise, both inside the try of lines 180-192, which makes them the
\* RuntimeError of line 192; else the build goes on with the balance read
\* again, which nothing tests.  Lines 194-278 with the balance of line 169
\* when there was no onboarding (val is None).
BuildFrom(in, val, nft, nai) ==
    IF val = NoneVal THEN BuildRest(in, in.balance0, nft, nai)
    ELSE IF Contains(val, "Failed") \/ in.ob_raise = "balance"
         THEN NoTiers("RuntimeError", nft)
    ELSE BuildRest(in, in.balance1, nft, nai)

\* lines 156-278: the balance read of line 169, which may raise, the
\* bootstrap, then the rest of the build
BuildTiers(in, nft, nai) ==
    IF in.b_raise = "balance" THEN NoTiers(in.b_exc, nft)
    ELSE LET b == Bootstrap(in, nft) IN
         IF b.kind = "raise" THEN NoTiers(b.exc, b.nft)
         ELSE BuildFrom(in, b.val, b.nft, nai)

\* random.shuffle(build_actions): any rearrangement of the list
Shuffle(s) == { [i \in 1..Len(s) |-> s[p[i]]] : p \in Permutations(1..Len(s)) }

\* a return statement that puts the tail list first
Concat3TailFirst(a, b, c) == c \o a \o b

\* a return statement that puts the shuffled list first
Concat3Swapped(a, b, c) == b \o a \o c

\* lines 279-284
Concat3(a, b, c) == a \o b \o c

(***************************************************************************)
(* Inputs of build_actions enumerated by SpecBuild: a default snapshot     *)
(* (funded wallet, nothing to do but the social-points grab) varied one    *)
(* group of answers at a time.                                             *)
(***************************************************************************)
BaseIn ==
    [balance0 |-> 1, balance1 |-> 1, onboard_choice |-> TRUE, ob_raise |-> "none",
     ob_quiz_completed |-> TRUE, ob_faucet_claimable |-> FALSE,
     ob_flow_res |-> OkStr, ob_ocf_res |-> OkStr, ob_faucet_res |-> OkStr,
     ob_portal_balance_ok |-> TRUE, ob_withdraw_res |-> OkStr,
     faucet_claimable |-> FALSE, onboarding_quiz_completed |-> TRUE,
     daily_quiz_completed |-> TRUE,
     twitter_token |-> FALSE, twitter_status |-> "none", twitter_linked |-> FALSE,
     twitter_tasks |-> FALSE,
     badges |-> <<>>, badges_minted |-> TRUE,
     now |-> Now, next_faucet_time |-> Now + 1, next_ai_conversation_time |-> Now + 1,
     swaps_count |-> 0, ai_dialogs_count |-> 0,
     bridge_status |-> TRUE, multisig |-> "Failed", deposits |-> 2, withdraws |-> 1,
     staking_le2 |-> FALSE, portal_balance_gt |-> FALSE, chance |-> 1,
     staked_nonempty |-> FALSE, b_raise |-> "none", b_exc |-> "Exception"]

ObCalls == {"none", "get_user_info", "onboard_flow", "on_chain_faucet",
            "on_chain_faucet_json", "faucet", "get_balances",
            "withdrawal_from_portal", "balance"}
\* the call of lines 169, 194 and 258 that raises, with the class of its
\* exception: asyncio.TimeoutError (the builtin TimeoutError of Python
\* 3.11, which a request that times out raises) or any other
BuildCalls ==
    {<<"none", "Exception">>}
    \cup ({"balance", "get_user_info", "get_stake_amounts"}
          \X {"Exception", "TimeoutError"})
\* portal.py:259, 295: r.json().get(...) is None when the key is missing
Answers == {OkStr, FailedStr, NoneVal}

\* what random.randint draws for swaps_count and ai_dialogs_count (lines
\* 166-167); the ranges come from Settings, which may start at 0
CountDraws == 0..MaxCount

BadgeLists ==
    UNION { [1..n -> BOOLEAN] : n \in 0..MaxBadges }
BadgeSeq(f) == [i \in DOMAIN f |-> [id |-> i, eligible |-> f[i]]]

BootInputs ==
    { [BaseIn EXCEPT !.balance0 = 0, !.balance1 = b1, !.onboard_choice = oc,
                     !.ob_raise = r, !.ob_quiz_completed = q,
                     !.ob_faucet_claimable = fc, !.ob_flow_res = fr[1],
                     !.ob_ocf_res = fr[2], !.ob_faucet_res = fr[3],
                     !.ob_portal_balance_ok = pb, !.ob_withdraw_res = wr,
                     !.next_faucet_time = nft] :
        b1 \in {0, 1}, oc \in BOOLEAN, r \in ObCalls, q \in BOOLEAN, fc \in BOOLEAN,
        fr \in {OkStr, FailedStr} \X Answers \X Answers, pb \in BOOLEAN,
        wr \in {OkStr, NoneVal}, nft \in {Now - 1, Now + 1} }

ProfileInputs ==
    { [BaseIn EXCEPT !.faucet_claimable = f[1], !.onboarding_quiz_completed = f[2],
                     !.daily_quiz_completed = f[3], !.twitter_token = f[4],
                     !.twitter_linked = f[5], !.twitter_tasks = f[6],
                     !.badges_minted = f[7], !.twitter_status = ts,
                     !.badges = BadgeSeq(bl)] :
        f \in [1..7 -> BOOLEAN], ts \in {"ok", "none", "bad"}, bl \in BadgeLists }

CooldownInputs ==
    { [BaseIn EXCEPT !.next_faucet_time = nft, !.next_ai_conversation_time = nai,
                     !.ai_dialogs_count = a, !.swaps_count = sw,
                     !.balance0 = b[1], !.balance1 = b[2], !.b_raise = br[1],
                     !.b_exc = br[2]] :
        br \in BuildCalls,
        nft \in {NoneTime, Now - 1, Now, Now + 1},
        nai \in {NoneTime, Now - 1, Now, Now + 1},
        a \in CountDraws, sw \in CountDraws, b \in {<<1, 1>>, <<0, 0>>, <<0, 1>>} }

\* a wallet whose faucet cooldown ends in one hour and whose AI-chat
\* cooldown ended one hour ago
ScenarioInputs ==
    { [BaseIn EXCEPT !.next_faucet_time = Now + 60, !.next_ai_conversation_time = Now - 60,
                     !.ai_dialogs_count = a, !.swaps_count = sw] :
        a \in CountDraws, sw \in CountDraws }

OnchainInputs ==
    { [BaseIn EXCEPT !.swaps_count = sw, !.bridge_status = br, !.multisig = ms,
                     !.deposits = d, !.withdraws = wd, !.next_faucet_time = nft,
                     !.onboarding_quiz_completed = q] :
        sw \in CountDraws, br \in BOOLEAN, ms \in {"Failed", "empty", "some"},
        d \in 2..3, wd \in 1..2, nft \in {Now - 1, Now + 1}, q \in BOOLEAN }

StakingInputs ==
    { [BaseIn EXCEPT !.staking_le2 = f[1], !.portal_balance_gt = f[2],
                     !.staked_nonempty = f[3], !.chance = ch, !.b_raise = br[1],
                     !.b_exc = br[2], !.balance0 = b[1], !.balance1 = b[2]] :
        f \in [1..3 -> BOOLEAN], ch \in {1, 5}, br \in BuildCalls,
        b \in {<<1, 1>>, <<0, 0>>, <<0, 1>>} }

Tiers(in) == BuildTiers(in, in.next_faucet_time, in.next_ai_conversation_time)

BuildInputs ==
    { in \in BootInputs \cup ProfileInputs \cup CooldownInputs \cup ScenarioInputs
             \cup OnchainInputs \cup StakingInputs :
        Len(Tiers(in).build_actions) <= MaxShuffle }

NoOut == [kind |-> "none", exc |-> "", catalog |-> <<>>, tiers |-> <<0, 0, 0>>,
          nft |-> 0, onboard |-> NoneVal]

\* lines 279-284 on the three lists t: the exception, or a catalog for
\* every outcome of random.shuffle
Shuffled(t) ==
    IF t.kind = "raise"
    THEN { [kind |-> "raise", exc |-> t.exc, catalog |-> <<>>, tiers |-> <<0, 0, 0>>,
            nft |-> t.nft, onboard |-> NoneVal] }
    ELSE { [kind |-> "return", exc |-> "",
            catalog |-> Concat3(t.actions, sh, t.end_actions),
            tiers |-> <<Len(t.actions), Len(t.build_actions), Len(t.end_actions)>>,
            nft |-> t.nft, onboard |-> NoneVal] : sh \in Shuffle(t.build_actions) }

\* the scheduler part of the state, at rest while SpecBuild runs
SchedIdle ==
    /\ wallets = <<>> /\ threads = 1 /\ shuffle_wallets = FALSE
    /\ task_func = "none" /\ pause = 0 /\ pause_range = <<0, 0>>
    /\ pause0 = 0 /\ fam = "none"
    /\ epc = "off" /\ sem = 0
    /\ twal = <<>> /\ tpc = <<>> /\ tres = <<>> /\ depth = <<>> /\ left = <<>>
    /\ how = <<>> /\ catalog = <<>> /\ idx = <<>> /\ client = <<>> /\ started = <<>>
    /\ paused = <<>> /\ status = <<>> /\ level = <<>> /\ caught = <<>>
    /\ booted = <<>> /\ orphan = <<>>
    /\ proxy = <<>> /\ db_proxy = <<>> /\ files = NoFiles
    /\ snap = <<>> /\ next_faucet_time = <<>> /\ next_ai_conversation_time = <<>>
    /\ inflight = <<>> /\ nfail = <<>> /\ fo_head = <<>> /\ pool0 = <<>> /\ log = {}
    /\ nupd = <<>>

\* the activity() harness at rest
NoSelect == [db |-> <<>>, range_wallets |-> <<0, 0>>, exact_wallets |-> {}]
ActivityIdle == apc = "off" /\ ain = NoSelect /\ aout = <<>>

InitBuild ==
    /\ SchedIdle
    /\ ActivityIdle
    /\ bpc = "input"
    /\ bin \in BuildInputs
    /\ bout = [NoOut EXCEPT !.nft = bin.next_faucet_time]

\* lines 169-183 for a wallet without balance: the onboarding raises (line
\* 192 makes it a RuntimeError), or build_actions reaches the sleep of line
\* 183; bout.nft is the cooldown as the onboarding stored it
BuildBootCall ==
    /\ bpc = "input"
    /\ bin.balance0 = 0 /\ bin.b_raise # "balance"
    /\ LET b == Bootstrap(bin, bout.nft) IN
       IF b.kind = "raise"
       THEN /\ bout' = [NoOut EXCEPT !.kind = "raise", !.exc = b.exc, !.nft = b.nft]
            /\ bpc' = "raised"
       ELSE /\ bout' = [bout EXCEPT !.nft = b.nft, !.onboard = b.val]
            /\ bpc' = "line183"
    /\ UNCHANGED <<bin, evars, tvars, wvars, hvars, avars>>

\* lines 169-284 for a funded wallet, lines 183-284 after the onboarding:
\* build_actions raises, or returns the catalog
BuildCall ==
    /\ \/ bpc = "input" /\ (bin.balance0 # 0 \/ bin.b_raise = "balance")
       \/ bpc = "line183"
    /\ bout' \in Shuffled(IF bpc = "line183"
                          THEN BuildFrom(bin, bout.onboard, bout.nft,
                                         bin.next_ai_conversation_time)
                          ELSE BuildTiers(bin, bout.nft,
                                          bin.next_ai_conversation_time))
    /\ bpc' = IF bout'.kind = "raise" THEN "raised" ELSE "returned"
    /\ UNCHANGED <<bin, evars, tvars, wvars, hvars, avars>>

\* the caller is cancelled while build_actions is suspended at an await
\* (lines 169, 181, 183, 186, 194, 216, 258): CancelledError leaves the
\* call (line 191 catches Exception only) and what was stored stays
BuildCancelled ==
    /\ bpc \in {"input", "line183"}
    /\ bout' = [NoOut EXCEPT !.kind = "raise", !.exc = "CancelledError",
                             !.nft = bout.nft]
    /\ bpc' = "cancelled"
    /\ UNCHANGED <<bin, evars, tvars, wvars, hvars, avars>>

NextBuild == BuildBootCall \/ BuildCall \/ BuildCancelled

SpecBuild == InitBuild /\ [][NextBuild]_vars

(***************************************************************************)
(* activity() (activity.py:215-228): the wallets of the database filtered  *)
(* by position.  SpecActivity applies the filter to every database of up   *)
(* to MaxDbWallets wallets and every pair of filters over the positions    *)
(* 0..MaxDbWallets+1.                                                      *)
(***************************************************************************)
\* the rows db.all(Wallet) returns, by wallet id
DbNames == <<"wa", "wb", "wc", "wd", "we">>

\* [wallet for i, wallet in enumerate(wallets, start=1) if <test of i>],
\* with `keep` the set of positions that pass the test
KeepByIndex(ws, keep) ==
    LET F[i \in 0..Len(ws)] ==
           IF i = 0 THEN <<>>
           ELSE IF i \in keep THEN Append(F[i - 1], ws[i]) ELSE F[i - 1]
    IN F[Len(ws)]

\* the positions that pass `start <= i <= end`
InRange(ws, range_wallets) ==
    {i \in 1..Len(ws) : range_wallets[1] <= i /\ i <= range_wallets[2]}

\* a selection in which a non-empty exact list wins over the range
SelectWalletsExactFirst(ws, range_wallets, exact_wallets) ==
    IF exact_wallets # {}
    THEN KeepByIndex(ws, exact_wallets)
    ELSE IF range_wallets # <<0, 0>>
    THEN KeepByIndex(ws, InRange(ws, range_wallets))
    ELSE ws

\* lines 222-228; the exact list is read only through `i in list`, so a
\* set stands for it
SelectWallets(ws, range_wallets, exact_wallets) ==
    IF range_wallets # <<0, 0>>
    THEN KeepByIndex(ws, InRange(ws, range_wallets))
    ELSE IF exact_wallets # {}
    THEN KeepByIndex(ws, exact_wallets)
    ELSE ws

SelectInputs ==
    { [db |-> SubSeq(DbNames, 1, n), range_wallets |-> <<a, b>>, exact_wallets |-> x] :
        n \in 0..MaxDbWallets, a \in 0..(MaxDbWallets + 1), b \in 0..(MaxDbWallets + 1),
        x \in SUBSET (0..(MaxDbWallets + 1)) }

InitActivity ==
    /\ SchedIdle
    /\ bpc = "off" /\ bin = BaseIn /\ bout = NoOut
    /\ apc = "input"
    /\ ain \in SelectInputs
    /\ aout = <<>>

\* lines 220-228
ActivitySelect ==
    /\ apc = "input"
    /\ aout' = SelectWallets(ain.db, ain.range_wallets, ain.exact_wallets)
    /\ apc' = "selected"
    /\ UNCHANGED <<ain, evars, tvars, wvars, hvars, bvars>>

NextActivity == ActivitySelect

SpecActivity == InitActivity /\ [][NextActivity]_vars

(***************************************************************************)
(* The reserve-proxy helpers of utils/db_import_export_sync (imported at   *)
(* activity.py:16, called without await).  Their bodies are not part of    *)
(* the sources at hand; they follow sections 4.5 and 7 of the              *)
(* specification: a line-oriented list, first entry taken, the consumed    *)
(* entry removed, an exhausted pool is a hard failure.                     *)
(***************************************************************************)
read_lines(fs, name) == fs[name]
PickFails(lines) == Len(lines) = 0
pick_proxy(lines, i) == lines[i + 1]
parse_proxy(line) == line
\* a helper that leaves the file as it is
remove_line_keeps(fs, value, name) == fs

remove_line_from_file(fs, value, name) ==
    [fs EXCEPT ![name] = SelectSeq(fs[name], LAMBDA l : l # value)]

PoolNames == <<"p1", "p2", "p3", "p4">>
OwnProxy(w) == <<"w1", "w2", "w3", "w4">>[w]
InSeq(x, s) == \E i \in 1..Len(s) : s[i] = x

(***************************************************************************)
(* The failover block of a task function (activity.py:62-67, 102-107,      *)
(* 130-135, 170-176): which file it reads and whether it removes the line. *)
(***************************************************************************)
TaskFuncs == {"random_activity_task", "join_discord", "push_social_tasks", "bound_eoa"}

FailoverFile(f) == IF f = "bound_eoa" THEN ReserverFile ELSE ReserveFile

\* lines 67, 107, 135: remove_line_from_file; bound_eoa has no such line
FailoverRemoves(f) == f # "bound_eoa"

\* the wallet's new proxy and the files after the failover block of f
FailoverProxy(f, fs) == parse_proxy(pick_proxy(read_lines(fs, FailoverFile(f)), 0))
FailoverFiles(f, fs) ==
    IF FailoverRemoves(f) THEN remove_line_from_file(fs, FailoverProxy(f, fs), ReserveFile)
    ELSE fs
FailoverRaises(f, fs) == PickFails(read_lines(fs, FailoverFile(f)))


(***************************************************************************)
(* execute(): the Wallet Scheduler (activity.py:181-212)                   *)
(***************************************************************************)
\* a gate sized to the larger of the two numbers
GateSizeMax(n, t) == IF n >= t THEN n ELSE t

\* line 183
GateSize(n, t) == Min(n, t)

\* a task list that spawns the first wallet twice
TaskWalletsTwice(ws) == IF Len(ws) = 0 THEN ws ELSE ws \o <<ws[1]>>

\* line 199: one sem_task per entry of the list
TaskWallets(ws) == ws

Tasks == DOMAIN twal
Wallets == DOMAIN proxy
Pool == files[ReserveFile]

\* what the platform answers for a wallet: a funded wallet whose onboarding
\* quiz is open, a funded wallet whose profile cannot be fetched, a
\* zero-balance wallet whose onboarding call raises
DefaultRun == [BaseIn EXCEPT !.onboarding_quiz_completed = FALSE]
RunInputs ==
    { DefaultRun,
      [BaseIn EXCEPT !.b_raise = "get_user_info"],
      [BaseIn EXCEPT !.balance0 = 0, !.balance1 = 0, !.ob_raise = "get_user_info"] }

\* The runs explored vary one group of settings at a time around a default
\* run (one pass, list order kept, every wallet with the default answers,
\* no task cancelled):
\*   "failover"  the reserve pool starts with 0..MaxPool lines
\*   "platform"  each wallet draws its answers from RunInputs
\*   "repeat"    shuffle_wallets and the pause range of the repeat mode
\*   "signals"   the 60-minute timeout of sem_task expires, a task is
\*               cancelled from outside; at most two wallets
\* In "platform" and "signals" the pool starts with at most one line, in
\* "repeat" empty; the file bound_eoa reads has a line in "failover" only.
\*   "cooldown"  one wallet that starts with an open faucet or AI-chat
\*               gate (CooldownRuns); the pool starts with at most one
\*               line; the timeout and the cancellation happen here too
RunFamilies == {"failover", "platform", "repeat", "signals", "cooldown"}

\* a wallet whose faucet gate is open, one whose AI-chat gate is open with
\* two dialogs drawn, and two wallets without funds whose onboarding claims
\* the on-chain faucet, which answers with a message or without one
CooldownRuns ==
    { [BaseIn EXCEPT !.next_faucet_time = Now - 1],
      [BaseIn EXCEPT !.next_ai_conversation_time = Now - 1, !.ai_dialogs_count = 2],
      [BaseIn EXCEPT !.balance0 = 0, !.next_faucet_time = Now],
      [BaseIn EXCEPT !.balance0 = 0, !.next_faucet_time = Now, !.ob_ocf_res = NoneVal],
      [BaseIn EXCEPT !.balance0 = 0, !.next_faucet_time = Now, !.ob_raise = "balance"] }

RateLimitMarker == "AI Agent rate limit"
RateStr == Str("AI Agent rate limit", {RateLimitMarker})
BothStr == Str("Failed | AI Agent rate limit", {"Failed", RateLimitMarker})
NoStatus == Str("", {})

\* how an awaited action ends: it returns a status or None (portal.py:259,
\* 295, 391: r.json().get(...)), raises RuntimeError or another exception,
\* or raises the transport failure
ActionOutcomes == {"ok", "none", "failed", "rate_limit", "both", "runtime_error",
                   "exception", "transport"}

\* portal.py:290-303: on_chain_faucet answers <= 202 with or without a
\* message ("ok", "none"), 429 ("failed"), either of them with a body that
\* is not a JSON object ("json_error"), or anything else;
\* portal.py:690-691: a paused portal answers without a request;
\* portal.py:675-686, 714-737: the inference request answers <= 202, 429
\* or anything else
KindOutcomes(kind, p) ==
    IF kind = "on_chain_faucet"
    THEN {"ok", "none", "failed", "json_error", "exception", "transport"}
    ELSE IF kind = "ai_agent_chat_flow"
         THEN IF p THEN {"rate_limit"}
              ELSE {"ok", "http_429", "exception", "transport"}
    ELSE ActionOutcomes

\* the answers the runs of a family explore: the statuses with a marker, the
\* answer without a message and the 429 are answered in "cooldown" only,
\* the RuntimeError of an action in "cooldown" and "platform"
FamilyOutcomes(f) ==
    IF f = "cooldown" THEN ActionOutcomes \cup {"http_429", "json_error"}
    ELSE IF f = "platform" THEN {"ok", "runtime_error", "exception", "transport"}
    ELSE {"ok", "exception", "transport"}

\* what an outcome that returns hands to the runner: a status string, or
\* None
StatusOf(o) ==
    IF o = "ok" THEN OkStr
    ELSE IF o = "failed" THEN FailedStr
    ELSE IF o = "rate_limit" THEN RateStr
    ELSE IF o = "both" THEN BothStr
    ELSE IF o = "none" THEN NoneVal
    ELSE NoStatus

\* a classification that looks for the failure marker first
ClassifyFailedFirst(s) ==
    IF Contains(s, "Failed") THEN "error"
    ELSE IF Contains(s, RateLimitMarker) THEN "warning"
    ELSE "success"

\* activity.py:49-55
Classify(s) ==
    IF Contains(s, RateLimitMarker) THEN "warning"
    ELSE IF ~Contains(s, "Failed") THEN "success"
    ELSE "error"

\* line 49: `"AI Agent rate limit" in status` raises TypeError on None
ClassifyRaises(s) == s = NoneVal

\* lines 49-58, 69: the level of the log line of an ended action
LevelOf(o) ==
    IF StatusOf(o) # NoStatus /\ ~ClassifyRaises(StatusOf(o))
    THEN Classify(StatusOf(o)) ELSE "error"

\* lines 57 and 60: the class of the exception a handler of the loop caught
CaughtOf(o) ==
    IF o = "runtime_error" THEN "RuntimeError"
    ELSE IF o \in {"exception", "http_429", "json_error"} THEN "Exception"
    ELSE IF ClassifyRaises(StatusOf(o)) THEN "Exception"
    ELSE "none"

\* a loop that is left when an action raises RuntimeError
HandlerPcStopsOnRuntime(o) == IF o = "runtime_error" THEN "update" ELSE "pace"

\* a loop that is left when an action fails
HandlerPcStopsOnFailure(o) == IF o \in {"failed", "exception"} THEN "update" ELSE "pace"

\* lines 49-58, 69-73: every status and every caught exception that is not
\* the transport failure reaches the sleep of the finally, and the for loop
\* goes on
HandlerPc(o) == "pace"

\* portal.py:293-294, 298-299: every answer <= 202 or 429 of the faucet
\* starts the cooldown, before the body is read: also the one whose body
\* makes line 295 or 301 raise
StoresFaucet(kind, o) ==
    kind = "on_chain_faucet" /\ o \in {"ok", "none", "failed", "json_error"}

\* a portal that pauses on a 429 without storing the cooldown
StoresAiNever(kind, o) == FALSE

\* portal.py:681-682
StoresAi(kind, o) == kind = "ai_agent_chat_flow" /\ o = "http_429"

\* a portal that never pauses
PausesNever(kind, o) == FALSE

\* portal.py:683
Pauses(kind, o) == kind = "ai_agent_chat_flow" /\ o = "http_429"

\* a gated request is on its way for the action task t awaits
GatedRequest(t, kind) ==
    /\ tpc[t] = "in_action"
    /\ catalog[t][idx[t]].kind = kind
    /\ kind = "ai_agent_chat_flow" => ~paused[t]

InFuture(threshold, now) == threshold # NoneTime /\ threshold > now
CallOutcomes == {"ok", "failed", "exception", "transport"}

\* a catch-all that also takes the CancelledError for a failure
OutcomeAbsorbs(h) ==
    IF h = "returned" THEN h
    ELSE IF h \in {"timeout", "TimeoutError"} THEN "timeout"
    ELSE "failed"

\* how a sem_task ends, given what left wait_for (lines 191-197): the
\* handler of line 193 takes the TimeoutError of wait_for ("timeout": the
\* hour is over and the task function was cancelled) and also a
\* TimeoutError the task function raised itself; the catch-all of line 196
\* takes every other exception; the CancelledError is not handled
Outcome(h) ==
    IF h \in {"returned", "cancelled"} THEN h
    ELSE IF h \in {"timeout", "TimeoutError"} THEN "timeout"
    ELSE "failed"

Init ==
    /\ task_func \in TaskFuncs
    /\ threads \in 1..MaxThreads
    /\ fam \in RunFamilies
    /\ \E n \in 1..(IF fam = "cooldown" THEN 1
                    ELSE IF fam = "signals" THEN Min(MaxWallets, 2)
                    ELSE MaxWallets) :
          /\ wallets = [i \in 1..n |-> i]
          /\ proxy = [w \in 1..n |-> OwnProxy(w)]
          /\ db_proxy = [w \in 1..n |-> OwnProxy(w)]
          /\ inflight = [w \in 1..n |-> 0]
          /\ nupd = [w \in 1..n |-> 0]
          /\ orphan = [w \in 1..n |-> 0]
          /\ nfail = [w \in 1..n |-> 0]
          /\ fo_head = [w \in 1..n |-> "none"]
          /\ snap \in IF fam = "platform" /\ task_func = "random_activity_task"
                      THEN [1..n -> RunInputs]
                      ELSE IF fam = "cooldown" /\ task_func = "random_activity_task"
                      THEN [1..n -> CooldownRuns]
                      ELSE {[w \in 1..n |-> IF task_func = "random_activity_task"
                                             THEN DefaultRun ELSE BaseIn]}
          /\ next_faucet_time = [w \in 1..n |-> snap[w].next_faucet_time]
          /\ next_ai_conversation_time = [w \in 1..n |-> snap[w].next_ai_conversation_time]
          /\ shuffle_wallets \in IF fam = "repeat" THEN BOOLEAN ELSE {FALSE}
          /\ pause_range \in IF fam = "repeat" /\ task_func = "random_activity_task"
                             THEN {<<0, 1>>, <<1, 1>>}
                             ELSE IF fam = "signals" /\ task_func = "random_activity_task"
                             THEN {<<0, 0>>, <<1, 1>>}
                             ELSE {<<0, 0>>}
          /\ pause \in pause_range[1]..pause_range[2]
          /\ pause0 = pause
          /\ \E k \in 0..(IF fam = "failover" THEN MaxPool
                          ELSE IF fam = "repeat" THEN 0 ELSE 1),
                r \in IF task_func = "bound_eoa" /\ fam = "failover"
                      THEN {<<>>, <<"q1">>} ELSE {<<>>} :
                files = [f \in {ReserveFile, ReserverFile} |->
                            IF f = ReserveFile THEN SubSeq(PoolNames, 1, k) ELSE r]
    /\ epc = "pass_start"
    /\ sem = 0
    /\ twal = <<>> /\ tpc = <<>> /\ tres = <<>> /\ depth = <<>> /\ left = <<>>
    /\ how = <<>> /\ catalog = <<>> /\ idx = <<>> /\ client = <<>> /\ started = <<>>
    /\ paused = <<>> /\ status = <<>> /\ level = <<>> /\ caught = <<>>
    /\ booted = <<>>
    /\ pool0 = <<>>
    /\ log = {}
    /\ bpc = "off" /\ bin = BaseIn /\ bout = NoOut
    /\ ActivityIdle

\* lines 183-200: new gate, optional shuffle, one task per wallet, gather
PassStart ==
    /\ epc = "pass_start"
    /\ sem' = GateSize(Len(wallets), threads)
    /\ wallets' \in IF shuffle_wallets THEN Shuffle(wallets) ELSE {wallets}
    /\ twal' = TaskWallets(wallets')
    /\ tpc' = [t \in DOMAIN twal' |-> "queued"]
    /\ tres' = [t \in DOMAIN twal' |-> "none"]
    /\ depth' = [t \in DOMAIN twal' |-> 0]
    /\ left' = [t \in DOMAIN twal' |-> 0]
    /\ how' = [t \in DOMAIN twal' |-> "none"]
    /\ catalog' = [t \in DOMAIN twal' |-> <<>>]
    /\ idx' = [t \in DOMAIN twal' |-> 0]
    /\ client' = [t \in DOMAIN twal' |-> "none"]
    /\ started' = [t \in DOMAIN twal' |-> <<>>]
    /\ paused' = [t \in DOMAIN twal' |-> FALSE]
    /\ status' = [t \in DOMAIN twal' |-> NoStatus]
    /\ level' = [t \in DOMAIN twal' |-> "none"]
    /\ caught' = [t \in DOMAIN twal' |-> "none"]
    /\ booted' = [t \in DOMAIN twal' |-> NoneVal]
    /\ inflight' = [w \in Wallets |-> 0]
    /\ nupd' = [w \in Wallets |-> 0]
    /\ nfail' = [w \in Wallets |-> 0]
    /\ fo_head' = [w \in Wallets |-> "none"]
    /\ pool0' = Pool
    /\ log' = {}
    /\ epc' = "gather"
    /\ UNCHANGED <<threads, shuffle_wallets, task_func, pause, pause_range, pause0, fam,
                   proxy, db_proxy, files, snap, next_faucet_time,
                   next_ai_conversation_time, orphan, bvars, avars>>

\* what no step of a sem_task touches
TaskFrame == UNCHANGED <<wallets, threads, shuffle_wallets, task_func, pause, pause_range,
                         pause0, fam, epc, twal, snap, pool0, bvars, avars>>
BootKeep == UNCHANGED booted
OrphanKeep == UNCHANGED orphan
NoFailover == UNCHANGED <<proxy, db_proxy, files, nfail, fo_head>>
CooldownKeep == UNCHANGED <<next_faucet_time, next_ai_conversation_time>>
RunnerKeep == UNCHANGED <<paused, status, level, caught>>
UpdateKeep == UNCHANGED nupd

\* the Controller of an invocation that ended is gone, and with it what the
\* runner held about its last action
RunnerReset(t) ==
    /\ paused' = [paused EXCEPT ![t] = FALSE]
    /\ status' = [status EXCEPT ![t] = NoStatus]
    /\ level' = [level EXCEPT ![t] = "none"]
    /\ caught' = [caught EXCEPT ![t] = "none"]

\* first position of a task function after it is called
EntryPc(f) == IF f = "join_discord" THEN "jd_join" ELSE "sleep_start"

\* a handler that treats the transport failure like any other exception and
\* goes on with the loop
RestartPcContinue(f) == IF f = "random_activity_task" THEN "pace" ELSE EntryPc(f)

\* lines 68, 108, 136, 177: return await <task function>(wallet)
RestartPc(f) == EntryPc(f)

\* line 189: async with semaphore (waiters are served in list order), then
\* line 191 calls task_func(wallet), which runs to its first await
Acquire(t) ==
    /\ epc = "gather"
    /\ tpc[t] = "queued"
    /\ \A u \in Tasks : u < t => tpc[u] # "queued"
    /\ sem > 0
    /\ sem' = sem - 1
    /\ tpc' = [tpc EXCEPT ![t] = EntryPc(task_func)]
    /\ client' = [client EXCEPT ![t] =
                     IF task_func = "join_discord" THEN proxy[twal[t]] ELSE @]
    /\ UNCHANGED <<tres, depth, left, how, catalog, idx, started, inflight, log>>
    /\ RunnerKeep
    /\ NoFailover
    /\ TaskFrame
    /\ BootKeep
    /\ OrphanKeep
    /\ UpdateKeep
    /\ CooldownKeep

\* a scheduler that swallows the exception without a log line
SchedLogSilent(t, h) ==
    IF h = "timeout" THEN {<<"sched_timeout", twal[t], h>>} ELSE {}

\* a sem_task without the TimeoutError handler: the catch-all logs it
SchedLogNoTimeout(t, h) ==
    IF Outcome(h) \in {"failed", "timeout"} THEN {<<"sched_failed", twal[t], h>>} ELSE {}

\* lines 193-197: what sem_task logs when the task function does not
\* return; the line of 194 is the same whoever raised the TimeoutError
SchedLog(t, h) ==
    IF Outcome(h) = "failed" THEN {<<"sched_failed", twal[t], h>>}
    ELSE IF Outcome(h) = "timeout" THEN {<<"sched_timeout", twal[t], "timeout">>}
    ELSE {}

\* a gate released by hand after the handlers, which a CancelledError skips
ReleaseUnlessCancelled(s, h) == IF h = "cancelled" THEN s ELSE s + 1

\* line 189: leaving the `async with semaphore` block releases the permit,
\* whatever leaves it (h: a return, a handled exception or timeout, or the
\* CancelledError passing through)
Release(s, h) == s + 1

\* lines 80-82: what an invocation of random_activity_task logs when an
\* exception leaves it
CoreLog(t, h) ==
    IF h \notin {"returned", "timeout", "cancelled"}
    THEN {<<"core_activity", twal[t], h>>} ELSE {}

\* The running invocation of the task function is left with h: "returned",
\* "timeout" (the CancelledError of wait_for) or the exception raised.
\* `frames` outer invocations of random_activity_task still have the sleep
\* of their finally to do (`left` counts them from here on); with none left
\* the sem_task ends and releases the gate.
\* `lv` is the level of the log line the task function wrote for the
\* outcome it ends with ("none": it wrote no line).
LeaveWith(t, h, frames, lg, lv) ==
    /\ catalog' = [catalog EXCEPT ![t] = <<>>]
    /\ idx' = [idx EXCEPT ![t] = 0]
    /\ started' = [started EXCEPT ![t] = <<>>]
    /\ depth' = [depth EXCEPT ![t] = 0]
    /\ client' = [client EXCEPT ![t] = "none"]
    /\ paused' = [paused EXCEPT ![t] = FALSE]
    /\ status' = [status EXCEPT ![t] = NoStatus]
    /\ level' = [level EXCEPT ![t] = lv]
    /\ caught' = [caught EXCEPT ![t] = "none"]
    /\ IF frames = 0
       THEN /\ tpc' = [tpc EXCEPT ![t] = "done"]
            /\ tres' = [tres EXCEPT ![t] = Outcome(h)]
            /\ sem' = Release(sem, h)
            /\ log' = log \cup lg \cup SchedLog(t, h)
            /\ how' = [how EXCEPT ![t] = "none"]
            /\ left' = [left EXCEPT ![t] = 0]
       ELSE /\ tpc' = [tpc EXCEPT ![t] = "unwind"]
            /\ left' = [left EXCEPT ![t] = frames]
            /\ how' = [how EXCEPT ![t] = h]
            /\ log' = log \cup lg
            /\ UNCHANGED <<tres, sem>>

Leave(t, h, frames, lg) == LeaveWith(t, h, frames, lg, "none")

(***************************************************************************)
(* The failover block followed by `return await <task function>(wallet)`.  *)
(* Nothing is awaited between the read of the list and the removal, so the *)
(* block is one step of the event loop.  When the list is exhausted the    *)
(* exception of the block leaves the handler.                              *)
(***************************************************************************)
PoolHead == IF Len(Pool) > 0 THEN Pool[1] ELSE "none"

Restart(t) ==
    LET w == twal[t] IN
    /\ depth[t] < MaxRestarts
    /\ ~FailoverRaises(task_func, files)
    /\ proxy' = [proxy EXCEPT ![w] = FailoverProxy(task_func, files)]
    /\ db_proxy' = proxy'
    /\ files' = FailoverFiles(task_func, files)
    /\ fo_head' = [fo_head EXCEPT ![w] = PoolHead]
    /\ nfail' = [nfail EXCEPT ![w] = @ + 1]
    /\ depth' = [depth EXCEPT ![t] = @ + 1]
    /\ tpc' = [tpc EXCEPT ![t] = RestartPc(task_func)]
    /\ client' = [client EXCEPT ![t] =
                     IF task_func = "join_discord" THEN proxy'[w] ELSE @]
    /\ catalog' = [catalog EXCEPT ![t] = <<>>]
    /\ idx' = [idx EXCEPT ![t] = 0]
    /\ started' = [started EXCEPT ![t] = <<>>]
    /\ RunnerReset(t)
    /\ UNCHANGED <<tres, left, how, sem, log>>

Exhausted(t, frames) ==
    /\ FailoverRaises(task_func, files)
    /\ nfail' = [nfail EXCEPT ![twal[t]] = @ + 1]
    /\ fo_head' = [fo_head EXCEPT ![twal[t]] = PoolHead]
    /\ Leave(t, "PoolExhausted", frames, {})
    /\ UNCHANGED <<proxy, db_proxy, files>>

(***************************************************************************)
(* random_activity_task (activity.py:29-82)                                *)
(***************************************************************************)
\* a restart that goes on with the Client of the invocation that failed
ClientProxyStale(t) == IF client[t] = "none" THEN proxy[twal[t]] ELSE client[t]

\* lines 33, 114, 142: Client(..., proxy=wallet.proxy)
ClientProxy(t) == proxy[twal[t]]

\* lines 31-36 (also 113-119, 141-147): the pre-start sleep is over, the
\* Client is built from wallet.proxy and the first call is awaited
StartSleepDone(t) ==
    /\ tpc[t] = "sleep_start"
    /\ client' = [client EXCEPT ![t] = ClientProxy(t)]
    /\ tpc' = [tpc EXCEPT ![t] =
                  IF task_func = "random_activity_task" THEN "build"
                  ELSE IF task_func = "push_social_tasks" THEN "pst_push"
                  ELSE "be_info"]
    /\ UNCHANGED <<sem, tres, depth, left, how, catalog, idx, started, inflight, log>>
    /\ RunnerKeep
    /\ NoFailover
    /\ TaskFrame
    /\ BootKeep
    /\ OrphanKeep
    /\ UpdateKeep
    /\ CooldownKeep

\* lines 36, 169-183: build_actions of a wallet without funds runs the
\* onboarding, which stores the cooldown when it claims the on-chain faucet
\* (portal.py:293-294), and then awaits the sleep of line 183; an exception
\* of the onboarding leaves the build as RuntimeError and the invocation
\* with it (lines 80-82)
BuildBoot(t) ==
    LET w == twal[t]
        in == snap[w]
        b == Bootstrap(in, next_faucet_time[w])
    IN
    /\ tpc[t] = "build"
    /\ in.balance0 = 0 /\ in.b_raise # "balance"
    /\ booted[t] = NoneVal
    /\ next_faucet_time' = [next_faucet_time EXCEPT ![w] = b.nft]
    /\ IF b.kind = "raise"
       THEN /\ Leave(t, b.exc, depth[t], CoreLog(t, b.exc))
            /\ UNCHANGED booted
       ELSE /\ booted' = [booted EXCEPT ![t] = b.val]
            /\ UNCHANGED <<tpc, tres, left, how, sem, log, depth, client, catalog, idx,
                           started>>
            /\ RunnerKeep
    /\ UNCHANGED <<next_ai_conversation_time, inflight>>
    /\ NoFailover
    /\ TaskFrame
    /\ OrphanKeep
    /\ UpdateKeep

\* lines 36-47, 169-284 (185-284 after the onboarding): the rest of
\* build_actions answers; the first action
\* is invoked, or the exception of the build leaves the invocation (lines
\* 80-82)
Build(t) ==
    LET w == twal[t]
        in == snap[w]
    IN
    /\ tpc[t] = "build"
    /\ booted[t] # NoneVal \/ in.balance0 # 0 \/ in.b_raise = "balance"
    /\ \E r \in Shuffled(IF booted[t] # NoneVal
                          THEN BuildFrom(in, booted[t], next_faucet_time[w],
                                         next_ai_conversation_time[w])
                          ELSE BuildTiers(in, next_faucet_time[w],
                                          next_ai_conversation_time[w])) :
          IF r.kind = "raise"
          THEN /\ Leave(t, r.exc, depth[t], CoreLog(t, r.exc))
               /\ UNCHANGED inflight
          ELSE /\ catalog' = [catalog EXCEPT ![t] = r.catalog]
               /\ idx' = [idx EXCEPT ![t] = 1]
               /\ started' = [started EXCEPT ![t] = <<r.catalog[1].oid>>]
               /\ tpc' = [tpc EXCEPT ![t] = "in_action"]
               /\ inflight' = [inflight EXCEPT ![twal[t]] = @ + 1]
               /\ UNCHANGED <<tres, left, how, sem, log, depth, client>>
               /\ RunnerKeep
    /\ booted' = [booted EXCEPT ![t] = NoneVal]
    /\ CooldownKeep
    /\ NoFailover
    /\ TaskFrame
    /\ OrphanKeep
    /\ UpdateKeep

\* a handler that drops the first reserve entry on every caught exception
HandlerFrameDropsEntry(o) ==
    IF o \in {"exception", "runtime_error"}
    THEN /\ files' = [files EXCEPT ![ReserveFile] = IF Len(@) > 0 THEN Tail(@) ELSE @]
         /\ UNCHANGED <<proxy, db_proxy, nfail, fo_head>>
    ELSE NoFailover

\* lines 47-59 and 69-70: the branches for a status, a RuntimeError and an
\* exception that is not the transport failure assign no wallet field and
\* call no file helper
HandlerFrame(o) == NoFailover

\* lines 47-70: the action in flight ends.  A status or a caught exception
\* leads to the sleep of the finally; a transport failure to the failover.
ActionDone(t) ==
    LET w == twal[t]
        kind == catalog[t][idx[t]].kind
    IN
    /\ tpc[t] = "in_action"
    /\ inflight' = [inflight EXCEPT ![w] = @ - 1]
    /\ \E o \in KindOutcomes(kind, paused[t]) \cap FamilyOutcomes(fam) :
          /\ next_faucet_time' =
                IF StoresFaucet(kind, o)
                THEN [next_faucet_time EXCEPT ![w] = snap[w].now + FaucetCooldown]
                ELSE next_faucet_time
          /\ next_ai_conversation_time' =
                IF StoresAi(kind, o)
                THEN [next_ai_conversation_time EXCEPT ![w] = snap[w].now + FaucetCooldown]
                ELSE next_ai_conversation_time
          /\ IF o = "transport"
             THEN \/ Restart(t)
                  \/ Exhausted(t, depth[t] + 1)
             ELSE /\ tpc' = [tpc EXCEPT ![t] = HandlerPc(o)]
                  /\ paused' = [paused EXCEPT ![t] = @ \/ Pauses(kind, o)]
                  /\ status' = [status EXCEPT ![t] = StatusOf(o)]
                  /\ level' = [level EXCEPT ![t] = LevelOf(o)]
                  /\ caught' = [caught EXCEPT ![t] = CaughtOf(o)]
                  /\ UNCHANGED <<tres, depth, left, how, catalog, idx, started, client,
                                 sem, log>>
                  /\ HandlerFrame(o)
    /\ TaskFrame
    /\ BootKeep
    /\ OrphanKeep
    /\ UpdateKeep

\* a loop that invokes the action it just ran once more
NextIndexRetry(i) == i

\* the index of the action the for loop hands out after position i
NextIndex(i) == i + 1

\* lines 72-75 and 44-47: the sleep of the finally is over; the next action
\* is invoked, or after the last one update_db_by_user_info is awaited
Pace(t) ==
    /\ tpc[t] = "pace"
    /\ IF idx[t] < Len(catalog[t])
       THEN /\ idx' = [idx EXCEPT ![t] = NextIndex(@)]
            /\ started' = [started EXCEPT ![t] = Append(@, catalog[t][idx'[t]].oid)]
            /\ tpc' = [tpc EXCEPT ![t] = "in_action"]
            /\ inflight' = [inflight EXCEPT ![twal[t]] = @ + 1]
       ELSE /\ tpc' = [tpc EXCEPT ![t] = "update"]
            /\ UNCHANGED <<idx, started, inflight>>
    /\ status' = [status EXCEPT ![t] = NoStatus]
    /\ level' = [level EXCEPT ![t] = "none"]
    /\ caught' = [caught EXCEPT ![t] = "none"]
    /\ UNCHANGED <<sem, tres, depth, left, how, catalog, client, log, paused>>
    /\ NoFailover
    /\ TaskFrame
    /\ BootKeep
    /\ OrphanKeep
    /\ UpdateKeep
    /\ CooldownKeep

\* line 75: update_db_by_user_info returns or raises; a request of it that
\* times out raises TimeoutError (answered in the "signals" runs)
Update(t) ==
    /\ tpc[t] = "update"
    /\ nupd' = [nupd EXCEPT ![twal[t]] = @ + 1]
    /\ \E h \in {"returned", "Exception"}
               \cup (IF fam = "signals" THEN {"TimeoutError"} ELSE {}) :
          Leave(t, h, depth[t], CoreLog(t, h))
    /\ UNCHANGED inflight
    /\ NoFailover
    /\ TaskFrame
    /\ BootKeep
    /\ OrphanKeep
    /\ CooldownKeep

\* an outer invocation that goes on behind the loop after the recursive
\* call returned, and runs the update too
OuterUpdatesToo(h) == IF h = "returned" THEN 1 ELSE 0

\* line 68: `return await random_activity_task(wallet)` leaves the outer
\* invocation with what the recursive call ended with (h); line 75 is not
\* reached by it
OuterUpdates(h) == 0

\* line 68 then 72-73 (and 80-82) in an outer invocation: the recursive call
\* has ended, the sleep of the finally of this invocation is over
Unwind(t) ==
    /\ tpc[t] = "unwind"
    /\ nupd' = [nupd EXCEPT ![twal[t]] = @ + OuterUpdates(how[t])]
    /\ IF left[t] = 1
       THEN /\ tpc' = [tpc EXCEPT ![t] = "done"]
            /\ tres' = [tres EXCEPT ![t] = Outcome(how[t])]
            /\ sem' = Release(sem, how[t])
            /\ log' = log \cup CoreLog(t, how[t]) \cup SchedLog(t, how[t])
            /\ left' = [left EXCEPT ![t] = 0]
            /\ how' = [how EXCEPT ![t] = "none"]
       ELSE /\ left' = [left EXCEPT ![t] = @ - 1]
            /\ log' = log \cup CoreLog(t, how[t])
            /\ UNCHANGED <<tpc, tres, sem, how>>
    /\ UNCHANGED <<catalog, idx, started, inflight, depth, client>>
    /\ RunnerKeep
    /\ NoFailover
    /\ TaskFrame
    /\ BootKeep
    /\ OrphanKeep
    /\ CooldownKeep

(***************************************************************************)
(* join_discord (85-109), push_social_tasks (112-137), bound_eoa (140-178) *)
(* An awaited controller call answers a status, raises, or raises the      *)
(* transport failure.  A status and a caught exception both end the        *)
(* invocation (it returns the result or None).                             *)
(***************************************************************************)
\* The level of the log line written for the outcome o of the last call:
\* lines 93-98 log the result of line 91, lines 121-126 and 156-166 the
\* result of the call; a caught exception that is not the transport failure
\* is logged by push_social_tasks (line 137), while the logger.error of
\* lines 109 and 178 stands behind the return of the if block and is never
\* reached.
CallLevel(t, o) ==
    IF o = "exception"
    THEN IF task_func = "push_social_tasks" THEN "error" ELSE "none"
    ELSE IF tpc[t] = "jd_push"
    THEN IF how[t] = "ok" THEN "success" ELSE "error"
    ELSE IF o = "ok" THEN "success" ELSE "error"

CallEnds(t) ==
    \E o \in CallOutcomes :
       IF o = "transport"
       THEN \/ Restart(t)
            \/ Exhausted(t, 0)
       ELSE /\ LeaveWith(t, "returned", 0, {}, CallLevel(t, o))
            /\ NoFailover

\* line 91: controller.join_discord_channel()
JdJoin(t) ==
    /\ tpc[t] = "jd_join"
    /\ \E o \in CallOutcomes :
          IF o = "transport"
          THEN \/ Restart(t)
               \/ Exhausted(t, 0)
          ELSE IF o = "exception"
          THEN /\ LeaveWith(t, "returned", 0, {}, CallLevel(t, o))
               /\ NoFailover
          ELSE /\ tpc' = [tpc EXCEPT ![t] = "jd_push"]
               /\ how' = [how EXCEPT ![t] = o]
               /\ UNCHANGED <<tres, depth, left, catalog, idx, started, client, sem, log>>
               /\ RunnerKeep
               /\ NoFailover
    /\ UNCHANGED inflight
    /\ TaskFrame
    /\ BootKeep
    /\ OrphanKeep
    /\ UpdateKeep
    /\ CooldownKeep

\* lines 92-98: controller.push_social_tasks(), then the result of line 91
JdPush(t) ==
    /\ tpc[t] = "jd_push"
    /\ CallEnds(t)
    /\ UNCHANGED inflight
    /\ TaskFrame
    /\ BootKeep
    /\ OrphanKeep
    /\ UpdateKeep
    /\ CooldownKeep

\* lines 119-137
PstPush(t) ==
    /\ tpc[t] = "pst_push"
    /\ CallEnds(t)
    /\ UNCHANGED inflight
    /\ TaskFrame
    /\ BootKeep
    /\ OrphanKeep
    /\ UpdateKeep
    /\ CooldownKeep

\* lines 147-164: get_user_info and get_current_eoa
BeInfo(t) ==
    /\ tpc[t] = "be_info"
    /\ \E o \in {"same", "differ", "exception", "transport"} :
          IF o = "transport"
          THEN \/ Restart(t)
               \/ Exhausted(t, 0)
          ELSE IF o = "differ"
          THEN /\ tpc' = [tpc EXCEPT ![t] = "be_bound"]
               /\ level' = [level EXCEPT ![t] = "warning"]
               /\ UNCHANGED <<tres, depth, left, how, catalog, idx, started, client,
                              sem, log, paused, status, caught>>
               /\ NoFailover
          ELSE /\ LeaveWith(t, "returned", 0, {},
                            IF o = "same" THEN "info" ELSE CallLevel(t, o))
               /\ NoFailover
    /\ UNCHANGED inflight
    /\ TaskFrame
    /\ BootKeep
    /\ OrphanKeep
    /\ UpdateKeep
    /\ CooldownKeep

\* lines 154-166: controller.bound_eoa_address()
BeBound(t) ==
    /\ tpc[t] = "be_bound"
    /\ CallEnds(t)
    /\ UNCHANGED inflight
    /\ TaskFrame
    /\ BootKeep
    /\ OrphanKeep
    /\ UpdateKeep
    /\ CooldownKeep

(***************************************************************************)
(* sem_task, line 191: wait_for cancels the task function at the await it  *)
(* is suspended in.  In random_activity_task the CancelledError passes the *)
(* finally of every invocation it unwinds (lines 72-73, 77-78).            *)
(***************************************************************************)
Suspended(t) ==
    /\ tpc[t] \notin {"queued", "done"}
    /\ tpc[t] = "unwind" => how[t] \notin {"timeout", "cancelled"}

CancelFrames(t) ==
    IF task_func # "random_activity_task" THEN 0
    ELSE IF tpc[t] = "unwind" THEN left[t] - 1
    ELSE IF tpc[t] = "in_action" THEN depth[t] + 1
    ELSE depth[t]

\* the CancelledError is raised at the await the task function is suspended
\* in and leaves every invocation through its finally
Cancelled(t, h) ==
    /\ inflight' = [inflight EXCEPT ![twal[t]] = IF tpc[t] = "in_action" THEN @ - 1 ELSE @]
    /\ Leave(t, h, CancelFrames(t), {})
    /\ booted' = [booted EXCEPT ![t] = NoneVal]
    /\ NoFailover
    /\ TaskFrame
    /\ OrphanKeep
    /\ UpdateKeep
    /\ CooldownKeep

Timeout(t) ==
    /\ fam \in {"signals", "cooldown"}
    /\ Suspended(t)
    /\ Cancelled(t, "timeout")

\* wait_for has cancelled the task function and waits for it to end
\* (asyncio.tasks._cancel_and_wait), while the CancelledError passes the
\* sleeps of the finally blocks
WaitsForCancel(t) == tpc[t] = "unwind" /\ how[t] \in {"timeout", "cancelled"}

\* the abandoned task functions alive, over all wallets
NOrphans == Cardinality({p \in Wallets \X (1..MaxOrphan) : p[2] <= orphan[p[1]]})

\* a cancellation of the sem_task that waits in _cancel_and_wait ends it at
\* once: the CancelledError leaves wait_for and the async with (no handler
\* of lines 193-197 takes it, the permit is released), and the task function
\* goes on alone through the sleeps it has ahead
Abandon(t) ==
    /\ NOrphans < MaxOrphan
    /\ orphan' = [orphan EXCEPT ![twal[t]] = @ + 1]
    /\ tpc' = [tpc EXCEPT ![t] = "done"]
    /\ tres' = [tres EXCEPT ![t] = Outcome("cancelled")]
    /\ sem' = Release(sem, "cancelled")
    /\ log' = log \cup SchedLog(t, "cancelled")
    /\ left' = [left EXCEPT ![t] = 0]
    /\ how' = [how EXCEPT ![t] = "none"]
    /\ UNCHANGED <<depth, catalog, idx, started, client, inflight>>
    /\ RunnerKeep
    /\ NoFailover
    /\ TaskFrame
    /\ BootKeep
    /\ UpdateKeep
    /\ CooldownKeep

\* the task of sem_task is cancelled from outside (shutdown): no handler of
\* lines 57-70, 77-82 and 193-197 stops the CancelledError
Cancel(t) ==
    /\ fam \in {"signals", "cooldown"}
    /\ tpc[t] \notin {"queued", "done"}
    /\ IF WaitsForCancel(t) THEN Abandon(t) ELSE Cancelled(t, "cancelled")

\* lines 72-73, 77-78 in a task function its sem_task abandoned: the sleeps
\* of the finally blocks it had ahead are over and the CancelledError ends
\* it; it assigns nothing on the way
OrphanEnds(w) ==
    /\ orphan[w] > 0
    /\ orphan' = [orphan EXCEPT ![w] = @ - 1]
    /\ UNCHANGED <<evars, twal, tpc, tres, depth, left, how, catalog, idx, client, started,
                   paused, status, level, caught, booted, wvars, hvars, bvars, avars>>

\* the task of sem_task is cancelled while it waits for the gate (line 189):
\* the CancelledError is raised in semaphore.acquire(), the async with
\* block is never entered and no permit was taken
CancelQueued(t) ==
    /\ fam \in {"signals", "cooldown"}
    /\ epc = "gather"
    /\ tpc[t] = "queued"
    /\ tpc' = [tpc EXCEPT ![t] = "done"]
    /\ tres' = [tres EXCEPT ![t] = Outcome("cancelled")]
    /\ UNCHANGED <<sem, depth, left, how, catalog, idx, started, client, inflight, log>>
    /\ RunnerKeep
    /\ NoFailover
    /\ TaskFrame
    /\ BootKeep
    /\ OrphanKeep
    /\ UpdateKeep
    /\ CooldownKeep

\* an exit test that never leaves the loop
ExitTestNever(p) == FALSE

\* lines 202-203: if random_pause_wallet_after_completion == 0: break
ExitTest(p) == p = 0

\* lines 200-208: gather has every sem_task; leave, or draw the next pause
\* a gather that returns with the first sem_task that ends
GatheredFirst == \E t \in Tasks : tpc[t] = "done"

\* line 200: await asyncio.gather(*tasks, return_exceptions=True) returns
\* when every sem_task has ended, an exception or a cancellation of a task
\* being one of the results
Gathered == \A t \in Tasks : tpc[t] = "done"

GatherDone ==
    /\ epc = "gather"
    /\ Gathered
    /\ IF ExitTest(pause)
       THEN /\ epc' = "returned"
            /\ pause' = pause
       ELSE /\ epc' = "sleeping"
            /\ pause' \in pause_range[1]..pause_range[2]
    /\ UNCHANGED <<wallets, threads, shuffle_wallets, task_func, pause_range, pause0, fam,
                   sem, tvars, wvars, hvars, bvars, avars>>

\* line 212: the pause is over, the while loop starts the next pass
SleepDone ==
    /\ epc = "sleeping"
    /\ epc' = "pass_start"
    /\ UNCHANGED <<wallets, threads, shuffle_wallets, task_func, pause, pause_range,
                   pause0, fam, sem, tvars, wvars, hvars, bvars, avars>>

\* the steps the event loop takes on its own: execute and the sem_tasks,
\* the answers they await and the timeout of wait_for included
Scheduled ==
    \/ PassStart
    \/ GatherDone
    \/ SleepDone
    \/ \E t \in Tasks :
          \/ Acquire(t)
          \/ StartSleepDone(t)
          \/ BuildBoot(t)
          \/ Build(t)
          \/ ActionDone(t)
          \/ Pace(t)
          \/ Update(t)
          \/ Unwind(t)
          \/ JdJoin(t)
          \/ JdPush(t)
          \/ PstPush(t)
          \/ BeInfo(t)
          \/ BeBound(t)
          \/ Timeout(t)
    \/ \E w \in Wallets : OrphanEnds(w)

\* a task is cancelled from outside
Cancellation == \E t \in Tasks : Cancel(t) \/ CancelQueued(t)

Next ==
    \/ Scheduled
    \/ Cancellation

Spec == Init /\ [][Next]_vars

\* The event loop runs a task that is ready: a step it can take on its own
\* is taken in the end.  Nothing makes a cancellation from outside happen.
SpecFair == Spec /\ WF_vars(Scheduled)

(***************************************************************************)
(*                              Properties                                 *)
(***************************************************************************)
\* the number of actions of a kind in a catalog
KindCount(c, kind) == Cardinality({i \in 1..Len(c) : c[i].kind = kind})
InGate(t) == tpc[t] \notin {"queued", "done"}
NInGate == Cardinality({t \in Tasks : InGate(t)})
PassOver == epc \in {"sleeping", "returned"}
Excs == {"RuntimeError", "Exception", "PoolExhausted", "TimeoutError"}

\* C1: in every reachable state of a pass the number of wallet tasks inside
\* the gate (running the task function, restarts included) is at most
\* min(N, T).
Thm_C1 == NInGate <= Min(Len(wallets), threads)

\* the gate is full with a restarted task inside while another wallet waits
Wit_C1 ==
    /\ threads < Len(wallets)
    /\ NInGate = threads
    /\ \E t \in Tasks : tpc[t] = "queued"
    /\ \E u \in Tasks : InGate(u) /\ depth[u] > 0

\* C2: a wallet has at most one task per pass and at most one action of its
\* catalog in flight, restarts included, and an invocation starts its
\* actions in catalog order.
Thm_C2 ==
    /\ \A t, u \in Tasks : twal[t] = twal[u] => t = u
    /\ \A w \in Wallets :
          /\ inflight[w] <= 1
          /\ inflight[w] = Cardinality({t \in Tasks : twal[t] = w /\ tpc[t] = "in_action"})
    /\ \A t \in Tasks :
          started[t] = [i \in 1..idx[t] |-> catalog[t][i].oid]

\* a restarted task is at its second action while another wallet also has
\* an action in flight
Wit_C2 ==
    \E t, u \in Tasks :
       /\ t # u
       /\ tpc[t] = "in_action" /\ depth[t] >= 1 /\ idx[t] = 2
       /\ inflight[twal[t]] = 1
       /\ tpc[u] = "in_action"

\* C3: an exception leaving the task function of one wallet is caught and
\* logged with the wallet id by sem_task (by the handler of line 193 when it
\* is a TimeoutError, by the catch-all of line 196 otherwise), the step in
\* which it ends that sem_task changes no other task and frees its permit,
\* and the pass is over only when every task has ended.
C3_FailedLogged ==
    \A t \in Tasks :
       /\ tres[t] = "failed" => \E e \in Excs : <<"sched_failed", twal[t], e>> \in log
       /\ tres[t] = "timeout" => <<"sched_timeout", twal[t], "timeout">> \in log
C3_AllEnded ==
    PassOver => \A t \in Tasks :
                   tpc[t] = "done" /\ tres[t] \in {"returned", "failed", "timeout", "cancelled"}
C3_Isolated ==
    \A t \in Tasks \cap DOMAIN tres' :
       (tres[t] = "none" /\ tres'[t] \in {"failed", "timeout"})
          => /\ sem' = sem + 1
             /\ \A u \in Tasks \ {t} : tpc'[u] = tpc[u] /\ tres'[u] = tres[u]
Thm_C3 == [](C3_FailedLogged /\ C3_AllEnded) /\ [][C3_Isolated]_vars

\* the pass is over, one wallet failed and another one returned
Wit_C3 ==
    /\ PassOver
    /\ \E t, u \in Tasks : tres[t] = "failed" /\ tres[u] = "returned"

\* the pass is over: the task function of one wallet raised a TimeoutError
\* of its own, which sem_task logged as a timeout, and another wallet
\* returned
Wit_C3_TimeoutError ==
    /\ PassOver /\ pause0 = 0
    /\ \E t, u \in Tasks :
          /\ tres[t] = "timeout"
          /\ <<"core_activity", twal[t], "TimeoutError">> \in log
          /\ <<"sched_timeout", twal[t], "timeout">> \in log
          /\ tres[u] = "returned"

\* C4 (as claimed): with reserve pool [p1, p2] and two wallets that each hit
\* one transport failure in the pass, at the end the wallets hold distinct
\* proxies, both from {p1, p2}, and the reserve pool is empty.
C4_Claim ==
    (/\ PassOver
     /\ pool0 = <<"p1", "p2">>
     /\ Len(wallets) = 2
     /\ \A w \in Wallets : nfail[w] = 1)
    => /\ proxy[1] # proxy[2]
       /\ {proxy[1], proxy[2]} \subseteq {"p1", "p2"}
       /\ Pool = <<>>

\* C5 (as claimed): after the failover of a wallet that found the reserve
\* pool non-empty, wallet.proxy is the first entry the pool had, the change
\* is committed and the entry is no longer in the pool.
C5_Claim ==
    \A w \in Wallets :
       fo_head[w] # "none"
          => /\ proxy[w] = fo_head[w]
             /\ db_proxy[w] = fo_head[w]
             /\ ~InSeq(fo_head[w], Pool)

\* C7 (as claimed): a task restarts at most as many times as the reserve
\* pool had entries.
C7_Claim == \A t \in Tasks : depth[t] <= Len(pool0)

\* C8: in random_activity_task a transport failure of an action is followed
\* by the failover and a restart from the top: pre-start sleep, then a new
\* Client built from the new proxy, then a new build, then the first action
\* of the new catalog.
C8_Step ==
    \A t \in Tasks \cap DOMAIN tpc' :
       LET w == twal[t] IN
       /\ (/\ task_func = "random_activity_task"
           /\ tpc[t] = "in_action"
           /\ nfail'[w] = nfail[w] + 1
           /\ Len(Pool) > 0)
          => /\ proxy'[w] = Pool[1] /\ db_proxy'[w] = Pool[1]
             /\ tpc'[t] = "sleep_start"
             /\ depth'[t] = depth[t] + 1
             /\ catalog'[t] = <<>> /\ idx'[t] = 0 /\ started'[t] = <<>>
       /\ (tpc[t] = "sleep_start" /\ task_func = "random_activity_task"
              /\ tpc'[t] \notin {"sleep_start", "done", "unwind"})
          => tpc'[t] = "build" /\ client'[t] = proxy[w]
       /\ (tpc[t] = "build" /\ tpc'[t] \notin {"build", "done", "unwind"})
          => tpc'[t] = "in_action" /\ idx'[t] = 1 /\ Len(catalog'[t]) >= 1
Thm_C8 == [][C8_Step]_vars

\* a restarted invocation runs the first action of its new catalog through
\* the proxy taken from the pool
Wit_C8 ==
    \E t \in Tasks :
       /\ task_func = "random_activity_task"
       /\ depth[t] >= 1 /\ tpc[t] = "in_action" /\ idx[t] = 1
       /\ client[t] = "p1" /\ proxy[twal[t]] = "p1"

\* C9: a wallet whose bootstrap fails (zero balance, onboarding call raises
\* or answers a failure string) runs no action in the pass; its task ends
\* failed, the RuntimeError logged by random_activity_task and, with the
\* wallet id, by sem_task (or it timed out or was cancelled before the
\* build); the pass ends with every task ended.
BootFails(in) ==
    /\ in.balance0 = 0
    /\ LET ob == onboard_to_portal(in, in.onboard_choice, in.next_faucet_time) IN
       ob.kind = "raise" \/ Contains(ob.val, "Failed")
Thm_C9 ==
    /\ \A t \in Tasks :
          (task_func = "random_activity_task" /\ BootFails(snap[twal[t]]))
             => /\ tpc[t] \notin {"in_action", "pace", "update"}
                /\ inflight[twal[t]] = 0
                /\ tpc[t] = "done" =>
                      \/ /\ tres[t] = "failed"
                         /\ <<"core_activity", twal[t], "RuntimeError">> \in log
                         /\ <<"sched_failed", twal[t], "RuntimeError">> \in log
                      \/ /\ tres[t] = "timeout"
                         /\ <<"sched_timeout", twal[t], "timeout">> \in log
                      \/ tres[t] = "cancelled"
    /\ PassOver => \A t \in Tasks : tpc[t] = "done"

\* the pass is over: the wallet that could not be bootstrapped failed and
\* another wallet returned
Wit_C9 ==
    /\ PassOver
    /\ \E t, u \in Tasks :
          /\ BootFails(snap[twal[t]]) /\ tres[t] = "failed"
          /\ <<"sched_failed", twal[t], "RuntimeError">> \in log
          /\ tres[u] = "returned"

\* the on-chain faucet of the onboarding answered without a message: the
\* cooldown is stored and the task failed with the RuntimeError
Wit_C9_NoMessage ==
    \E t \in Tasks :
       /\ task_func = "random_activity_task"
       /\ snap[twal[t]].balance0 = 0 /\ snap[twal[t]].ob_ocf_res = NoneVal
       /\ tres[t] = "failed"
       /\ <<"sched_failed", twal[t], "RuntimeError">> \in log
       /\ next_faucet_time[twal[t]] = Now + FaucetCooldown

\* the onboarding of a zero-balance wallet claimed the faucet and returned,
\* the balance re-fetch after the sleep of line 183 raised: the task failed
\* with the RuntimeError, the cooldown stored
Wit_C9_Refetch ==
    \E t \in Tasks :
       /\ task_func = "random_activity_task"
       /\ snap[twal[t]].balance0 = 0 /\ snap[twal[t]].ob_raise = "balance"
       /\ tres[t] = "failed"
       /\ <<"sched_failed", twal[t], "RuntimeError">> \in log
       /\ next_faucet_time[twal[t]] = Now + FaucetCooldown

\* every wallet of the list has a task of the pass, and it has ended
AllServed ==
    /\ Len(twal) = Len(wallets)
    /\ \A w \in Wallets : \E t \in Tasks : twal[t] = w /\ tpc[t] = "done"

C11_Inv ==
    pause0 = 0 => /\ epc \in {"pass_start", "gather", "returned"}
                  /\ epc = "returned" => AllServed
C11_Step ==
    pause0 = 0 => /\ epc' = "pass_start" => epc = "pass_start"
                  /\ (epc = "gather" /\ epc' # "gather") => (epc' = "returned" /\ AllServed)
                  /\ epc = "returned" =>
                        UNCHANGED <<evars, twal, tpc, tres, depth, left, how, catalog, idx,
                                    client, started, paused, status, level, caught, booted,
                                    wvars, hvars>>

\* C11: an execute called with pause 0 never sleeps, starts no pass after
\* the first one, and leaves the gather of that pass only by returning,
\* with a finished task for every wallet; once it has returned, nothing of
\* the scheduler, the tasks and the wallets changes.
Thm_C11 == []C11_Inv /\ [][C11_Step]_vars

\* execute was called with 0 and has returned after a pass over two wallets
Wit_C11 == pause0 = 0 /\ epc = "returned" /\ Len(wallets) >= 2 /\ AllServed

C12_Step ==
    pause0 # 0 =>
       /\ (epc = "gather" /\ epc' # "gather")
             => (epc' = "sleeping" /\ pause' \in pause_range[1]..pause_range[2])
       /\ (epc = "sleeping" /\ epc' # "sleeping") => epc' = "pass_start"
       /\ (epc = "pass_start" /\ epc' # "pass_start")
             => (epc' = "gather" /\ sem' = Min(Len(wallets), threads))

\* C12 (as claimed): an execute called with a pause other than 0 leaves the
\* gather of every pass by drawing a pause from the range and sleeping,
\* and leaves every sleep by starting another pass with a new gate.
C12_Claim == [][C12_Step]_vars

\* the timeout of task t is delivered (wait_for cancels the task function),
\* or the handler of line 193 ends its sem_task, in this step
TimeoutHits(t) ==
    \/ how[t] # "timeout" /\ how'[t] = "timeout"
    \/ tres[t] # "timeout" /\ tres'[t] = "timeout"

C13_Inv ==
    /\ \A t \in Tasks :
          tres[t] = "timeout" => /\ tpc[t] = "done"
                                 /\ <<"sched_timeout", twal[t], "timeout">> \in log
    /\ PassOver => \A t \in Tasks : tpc[t] = "done"
C13_Step ==
    \A t \in Tasks \cap DOMAIN tres' :
       /\ TimeoutHits(t) =>
             \A u \in Tasks \ {t} :
                tpc'[u] = tpc[u] /\ tres'[u] = tres[u] /\ how'[u] = how[u]
       /\ (tres[t] # "timeout" /\ tres'[t] = "timeout") => sem' = sem + 1

\* C13: the timeout of one wallet's task changes no other task of the pass;
\* when the sem_task ends the timeout is logged with the wallet id and the
\* permit is back in the gate; the pass is over only when every task ended.
\* The same holds of a sem_task that takes the branch of line 193 for a
\* TimeoutError its task function raised.
Thm_C13 == []C13_Inv /\ [][C13_Step]_vars

\* one task has timed out after a restart while another wallet has an action
\* in flight
Wit_C13 ==
    \E t, u \in Tasks :
       /\ t # u
       /\ tres[t] = "timeout" /\ nfail[twal[t]] >= 1
       /\ \A e \in Excs : <<"core_activity", twal[t], e>> \notin log
       /\ tpc[u] = "in_action"

C14_Inv ==
    \A t \in Tasks :
       tres[t] = "cancelled" =>
          /\ tpc[t] = "done"
          /\ \A e \in Excs \cup {"cancelled", "timeout"} :
                /\ <<"sched_failed", twal[t], e>> \notin log
                /\ <<"sched_timeout", twal[t], e>> \notin log
                /\ <<"core_activity", twal[t], "cancelled">> \notin log
C14_Step ==
    \A t \in Tasks \cap DOMAIN tres' :
       \* delivered at an await: nothing of the loop runs afterwards
       /\ (how[t] # "cancelled" /\ how'[t] = "cancelled")
             => /\ tpc'[t] = "unwind"
                /\ inflight'[twal[t]] = 0
       \* while it passes the outer invocations it is neither replaced nor dropped
       /\ how[t] = "cancelled"
             => /\ tpc'[t] \in {"unwind", "done"}
                /\ tpc'[t] = "unwind" => how'[t] = "cancelled"
                /\ tpc'[t] = "done" => tres'[t] = "cancelled"
                /\ catalog'[t] = <<>> /\ inflight'[twal[t]] = 0

\* C14: a CancelledError delivered to a wallet task ends the action in
\* flight without a handler of the loop running, passes every invocation of
\* random_activity_task unchanged and leaves sem_task as a cancellation: it
\* is never logged as a failure or a timeout and the task never returns.
Thm_C14 == []C14_Inv /\ [][C14_Step]_vars

\* a task cancelled after a restart has ended cancelled while another
\* wallet has an action in flight
Wit_C14 ==
    \E t, u \in Tasks :
       /\ t # u
       /\ task_func = "random_activity_task"
       /\ tres[t] = "cancelled" /\ nfail[twal[t]] >= 1
       /\ tpc[u] = "in_action"

\* C18: while a wallet's stored cooldown of the on-chain faucet or of the AI
\* chat is in the future, no request of that action is on its way for the
\* wallet, and a cooldown is started only by a request made when the stored
\* one was over.
C18_Inv ==
    \A t \in Tasks :
       LET w == twal[t] IN
       /\ GatedRequest(t, "on_chain_faucet")
             => ~InFuture(next_faucet_time[w], snap[w].now)
       /\ GatedRequest(t, "ai_agent_chat_flow")
             => ~InFuture(next_ai_conversation_time[w], snap[w].now)

C18_Step ==
    \A w \in Wallets :
       /\ (w \in DOMAIN next_faucet_time' /\ next_faucet_time'[w] # next_faucet_time[w])
             => ~InFuture(next_faucet_time[w], snap[w].now)
       /\ (w \in DOMAIN next_ai_conversation_time'
            /\ next_ai_conversation_time'[w] # next_ai_conversation_time[w])
             => ~InFuture(next_ai_conversation_time[w], snap[w].now)

Thm_C18 == []C18_Inv /\ [][C18_Step]_vars

\* after a 429 the next AI-chat action of the catalog is awaited by a paused
\* portal: the cooldown is stored, no request is made
Wit_C18 ==
    \E t \in Tasks :
       /\ tpc[t] = "in_action"
       /\ catalog[t][idx[t]].kind = "ai_agent_chat_flow"
       /\ paused[t]
       /\ InFuture(next_ai_conversation_time[twal[t]], snap[twal[t]].now)

\* C20: a returned status string with the rate-limit marker is logged as a
\* warning (also when it holds the failure marker), one without the failure
\* marker as a success, any other as an error; the task then sleeps the
\* pacing sleep and goes on with the next entry.
C20_Inv ==
    \A t \in Tasks :
       (status[t] # NoStatus /\ status[t] # NoneVal) =>
          /\ tpc[t] = "pace"
          /\ level[t] = (IF RateLimitMarker \in status[t].marks THEN "warning"
                         ELSE IF "Failed" \notin status[t].marks THEN "success"
                         ELSE "error")

C20_Step ==
    \A t \in Tasks :
       (t \in DOMAIN tpc' /\ status[t] # NoStatus /\ tpc'[t] # tpc[t])
          => \/ /\ idx[t] < Len(catalog[t])
                /\ tpc'[t] = "in_action" /\ idx'[t] = idx[t] + 1
             \/ /\ idx[t] = Len(catalog[t])
                /\ tpc'[t] = "update"
             \/ how'[t] \in {"timeout", "cancelled"}
             \/ tres'[t] \in {"timeout", "cancelled"}

Thm_C20 == []C20_Inv /\ [][C20_Step]_vars

\* a status with both markers was logged as a warning
Wit_C20 ==
    \E t \in Tasks :
       /\ tpc[t] = "pace"
       /\ status[t] = BothStr
       /\ level[t] = "warning"

\* C19 (as claimed): an action of a wallet is invoked either as the first
\* action of the wallet's task or when the pacing sleep that follows the
\* previous entry is over.
C19_Step ==
    \A t \in Tasks :
       (t \in DOMAIN tpc' /\ tpc[t] # "in_action" /\ tpc'[t] = "in_action")
          => (tpc[t] = "pace" \/ depth[t] = 0)

C19_Claim == [][C19_Step]_vars

\* task t takes the outcome of the call it awaited (a status or an exception
\* its handler catches) and is not cancelled
OutcomeTaken(t) ==
    /\ t \in DOMAIN tpc'
    /\ tpc[t] \in {"in_action", "jd_join", "jd_push", "pst_push", "be_info", "be_bound"}
    /\ tpc'[t] # tpc[t] \/ nfail'[twal[t]] # nfail[twal[t]]
    /\ ~(tpc[t] = "jd_join" /\ tpc'[t] = "jd_push")
    /\ tres'[t] \notin {"timeout", "cancelled"}
    /\ how'[t] \notin {"timeout", "cancelled"}

\* C21 (as claimed): every status returned to a task function and every
\* exception it catches is followed by a log line for it.
C21_Step ==
    \A t \in Tasks :
       OutcomeTaken(t) => (level'[t] # "none" \/ log' # log)

C21_Claim == [][C21_Step]_vars

\* the step of task t goes on with the entry after the current one (or with
\* update_db_by_user_info after the last), unless the task is cancelled
NextEntry(t) ==
    \/ /\ idx[t] < Len(catalog[t])
       /\ tpc'[t] = "in_action" /\ idx'[t] = idx[t] + 1 /\ catalog'[t] = catalog[t]
    \/ /\ idx[t] = Len(catalog[t])
       /\ tpc'[t] = "update"
    \/ how'[t] \in {"timeout", "cancelled"}
    \/ tres'[t] \in {"timeout", "cancelled"}

WalletLogged(w) == \E e \in log : e[2] = w

\* C22: a RuntimeError raised by an action is logged as an error, the task
\* sleeps the pacing sleep and then invokes the next action of the same
\* catalog (update_db_by_user_info after the last one).
C22_Inv ==
    \A t \in Tasks :
       caught[t] = "RuntimeError" => (tpc[t] = "pace" /\ level[t] = "error")

C22_Step ==
    \A t \in Tasks :
       (t \in DOMAIN tpc' /\ caught[t] = "RuntimeError" /\ tpc'[t] # tpc[t])
          => NextEntry(t)

Thm_C22 == []C22_Inv /\ [][C22_Step]_vars

\* the first action of a catalog with more entries raised RuntimeError
Wit_C22 ==
    \E t \in Tasks :
       /\ caught[t] = "RuntimeError" /\ tpc[t] = "pace"
       /\ idx[t] = 1 /\ Len(catalog[t]) > 1

\* C23 (as claimed): after an action raised RuntimeError no later action of
\* the catalog is invoked.
C23_Step0 ==
    \A t \in Tasks :
       (t \in DOMAIN tpc' /\ caught[t] = "RuntimeError") => tpc'[t] # "in_action"

C23_Claim == [][C23_Step0]_vars

\* C23 (amended): a RuntimeError raised by an action neither ends the
\* action sequence nor fails the task: the step that catches it keeps the
\* catalog and the position, the task has not ended and nothing of the
\* wallet is logged as a failure of the task; the sequence goes on.
C23_Inv ==
    \A t \in Tasks :
       caught[t] = "RuntimeError" =>
          /\ tpc[t] = "pace" /\ tres[t] = "none"
          /\ ~WalletLogged(twal[t])

C23_Step ==
    \A t \in Tasks :
       /\ (t \in DOMAIN tpc' /\ tpc[t] = "in_action" /\ caught'[t] = "RuntimeError")
             => (catalog'[t] = catalog[t] /\ idx'[t] = idx[t] /\ depth'[t] = depth[t])
       /\ (t \in DOMAIN tpc' /\ caught[t] = "RuntimeError" /\ tpc'[t] # tpc[t])
             => tpc'[t] # "done" \/ tres'[t] \in {"timeout", "cancelled"}

Thm_C23 == []C23_Inv /\ [][C23_Step]_vars

\* the last action of the catalog raised RuntimeError: what follows is
\* update_db_by_user_info and the return of the task function
Wit_C23 ==
    \E t \in Tasks :
       /\ caught[t] = "RuntimeError" /\ tpc[t] = "pace"
       /\ idx[t] = Len(catalog[t])

\* a status the classification of lines 49-55 takes for a failure (the
\* failure marker without the rate-limit marker, which is tested first), or
\* an exception caught by line 60 that is not the transport failure
HardFailure(st, c) ==
    \/ Contains(st, "Failed") /\ ~Contains(st, RateLimitMarker)
    \/ c = "Exception"

\* C24: an action that returned a failure status, or raised an exception
\* other than RuntimeError and the transport failure, is logged as an
\* error; the step leaves wallet.proxy, the committed proxy and the pool
\* files as they were, and the task goes on with the next entry.
C24_Inv ==
    \A t \in Tasks :
       HardFailure(status[t], caught[t]) => (tpc[t] = "pace" /\ level[t] = "error")

C24_Step ==
    \A t \in Tasks :
       /\ (t \in DOMAIN tpc' /\ tpc[t] = "in_action"
            /\ HardFailure(status'[t], caught'[t]))
             => (proxy' = proxy /\ db_proxy' = db_proxy /\ files' = files)
       /\ (t \in DOMAIN tpc' /\ HardFailure(status[t], caught[t]) /\ tpc'[t] # tpc[t])
             => NextEntry(t)

Thm_C24 == []C24_Inv /\ [][C24_Step]_vars

\* a failure status was logged as an error and the catalog has more entries
Wit_C24 ==
    \E t \in Tasks :
       /\ tpc[t] = "pace" /\ status[t] = FailedStr /\ level[t] = "error"
       /\ idx[t] < Len(catalog[t])
       /\ proxy[twal[t]] = OwnProxy(twal[t]) /\ Len(Pool) = 1

\* the on-chain faucet action of a funded wallet stored the cooldown and
\* raised on the body of its answer: the exception is caught and logged as
\* an error, no status was assigned, and the loop goes on
Wit_C24_Stored ==
    \E t \in Tasks :
       /\ tpc[t] = "pace" /\ caught[t] = "Exception" /\ level[t] = "error"
       /\ status[t] = NoStatus
       /\ catalog[t][idx[t]].kind = "on_chain_faucet"
       /\ snap[twal[t]].balance0 # 0 /\ depth[t] = 0
       /\ snap[twal[t]].next_faucet_time <= snap[twal[t]].now
       /\ next_faucet_time[twal[t]] = snap[twal[t]].now + FaucetCooldown

\* two wallets whose failovers in this pass read the same first entry of
\* reserve_proxy.txt
SameEntryRead ==
    \E w, v \in Wallets :
       w # v /\ fo_head[w] # "none" /\ fo_head[w] = fo_head[v]

\* the failover of wallet w reads the first reserve entry in this step
ReadsEntry(w) == nfail'[w] = nfail[w] + 1 /\ fo_head'[w] # "none"

\* C25 (as claimed): another wallet task can be scheduled between the read
\* of the reserve list and the removal of the consumed entry, that is, the
\* step of the event loop in which a failover reads the first entry leaves
\* that entry in the list (the removal, where there is one, is a later
\* step), so that a second task may read the same entry in between.
C25_Step ==
    \A w \in Wallets :
       (task_func # "bound_eoa" /\ ReadsEntry(w))
          => files'[ReserveFile] = files[ReserveFile]
C25_Claim == [][C25_Step]_vars

\* C25 (amended): in the task functions that remove the entry they took no
\* two wallets read the same first reserve entry in a pass.
Thm_C25 == task_func # "bound_eoa" => ~SameEntryRead

\* two wallets failed over in the same pass; one found p1 first in the
\* list, the other p2
Wit_C25 ==
    /\ task_func \in {"random_activity_task", "push_social_tasks"}
    /\ \E w, v \in Wallets :
          /\ fo_head[w] = "p1" /\ fo_head[v] = "p2"
          /\ proxy[w] = "p1" /\ proxy[v] = "p2"

\* task t has a network call of the running invocation under way or between
\* two of them
Calling(t) == tpc[t] \in {"build", "in_action", "pace", "update"}

\* C26: in random_activity_task the failover commits the reassigned proxy in
\* the step that restarts the task; every call of the running invocation
\* goes through a Client built from the wallet's current, committed proxy;
\* after a restart that proxy is an entry the pool had at the start of the
\* pass, not the wallet's earlier one, and it is gone from the pool, which
\* never gets an entry back during the pass.
C26_Inv ==
    task_func = "random_activity_task" =>
       \A t \in Tasks :
          Calling(t) =>
             /\ client[t] = proxy[twal[t]]
             /\ db_proxy[twal[t]] = proxy[twal[t]]
             /\ depth[t] >= 1 =>
                   /\ client[t] # OwnProxy(twal[t])
                   /\ InSeq(client[t], pool0)
                   /\ ~InSeq(client[t], Pool)

C26_Step ==
    task_func = "random_activity_task" =>
       /\ \A t \in Tasks :
             (t \in DOMAIN depth' /\ depth'[t] = depth[t] + 1) =>
                LET w == twal[t] IN
                /\ proxy'[w] # proxy[w]
                /\ db_proxy'[w] = proxy'[w]
                /\ InSeq(proxy'[w], Pool)
                /\ tpc'[t] = "sleep_start"
       /\ epc = "gather" =>
             \A i \in 1..Len(files'[ReserveFile]) : InSeq(files'[ReserveFile][i], Pool)

Thm_C26 == []C26_Inv /\ [][C26_Step]_vars

\* a task restarted twice runs an action through the second entry of the
\* pool
Wit_C26 ==
    \E t \in Tasks :
       /\ task_func = "random_activity_task"
       /\ depth[t] = 2 /\ tpc[t] = "in_action"
       /\ client[t] = "p2" /\ db_proxy[twal[t]] = "p2"

\* task t invokes an action in this step
Invokes(t) == tpc[t] # "in_action" /\ tpc'[t] = "in_action"

\* C27: in random_activity_task every action object of a catalog is invoked
\* at most once.  The running invocation invokes the actions of the catalog
\* it built itself, in list order and each one once; a transport failure at
\* action i ends its loop (the catalog is dropped with the actions behind i
\* not invoked) and the next action invoked is the first of a catalog built
\* by the restarted invocation; the outer invocations invoke nothing while
\* they unwind.
C27_Inv ==
    task_func = "random_activity_task" =>
       \A t \in Tasks :
          /\ \A i, j \in 1..Len(started[t]) : i # j => started[t][i] # started[t][j]
          /\ \A i \in 1..Len(started[t]) :
                i <= Len(catalog[t]) /\ started[t][i] = catalog[t][i].oid
          /\ tpc[t] \in {"queued", "sleep_start", "build", "unwind", "done"}
                => catalog[t] = <<>> /\ started[t] = <<>>

C27_Step ==
    task_func = "random_activity_task" =>
       \A t \in Tasks \cap DOMAIN tpc' :
          /\ (tpc[t] = "in_action" /\ nfail'[twal[t]] = nfail[twal[t]] + 1)
                => /\ tpc'[t] \in {"sleep_start", "unwind", "done"}
                   /\ catalog'[t] = <<>> /\ started'[t] = <<>>
          /\ Invokes(t)
                => \/ /\ tpc[t] = "build" /\ catalog[t] = <<>>
                      /\ idx'[t] = 1
                      /\ started'[t] = <<catalog'[t][1].oid>>
                   \/ /\ tpc[t] = "pace" /\ catalog'[t] = catalog[t]
                      /\ idx'[t] = idx[t] + 1
                      /\ \A i \in 1..Len(started[t]) :
                            started[t][i] # catalog[t][idx'[t]].oid
                      /\ started'[t] = Append(started[t], catalog[t][idx'[t]].oid)
          /\ tpc[t] = "unwind" => tpc'[t] \in {"unwind", "done"}

Thm_C27 == []C27_Inv /\ [][C27_Step]_vars

\* an invocation restarted after a transport failure has invoked the first
\* two actions of the catalog it built
Wit_C27 ==
    \E t \in Tasks :
       /\ task_func = "random_activity_task"
       /\ depth[t] >= 1 /\ nfail[twal[t]] >= 1
       /\ tpc[t] = "in_action" /\ Len(started[t]) = 2 /\ idx[t] = 2

\* a sem_task of the pass has not ended yet (it waits at the gate or runs)
Active(t) == tpc[t] # "done"

\* C28: passes never overlap.  While execute sleeps between two passes, has
\* returned, or stands at the top of its loop, no sem_task (the wallet task
\* execute spawns at line 199) is active: every
\* task of the last pass has ended (returned, failed, timed out or
\* cancelled), no action is in flight and the gate is free.  execute goes
\* from the top of the loop to the gather, leaves the gather only with
\* every task ended, to the sleep or the return, and leaves the sleep only
\* for the top of the loop; the tasks of a pass are created in the step
\* that enters the gather.
C28_Inv ==
    /\ epc \in {"pass_start", "gather", "sleeping", "returned"}
    /\ epc # "gather" =>
          /\ \A t \in Tasks : ~Active(t)
                                 /\ tres[t] \in {"returned", "failed", "timeout", "cancelled"}
          /\ \A w \in DOMAIN inflight : inflight[w] = 0
          /\ Tasks # {} => sem = GateSize(Len(wallets), threads)

C28_Step ==
    /\ epc' # epc =>
          \/ epc = "pass_start" /\ epc' = "gather"
          \/ epc = "gather" /\ epc' \in {"sleeping", "returned"}
                /\ \A t \in Tasks : ~Active(t)
          \/ epc = "sleeping" /\ epc' = "pass_start"
    /\ (\E t \in DOMAIN tpc' : tpc'[t] = "queued" /\ (t \notin Tasks \/ tpc[t] # "queued"))
          => epc = "pass_start" /\ epc' = "gather"
    /\ epc # "gather" /\ epc' # "gather" => UNCHANGED <<tpc, tres, sem, inflight>>

Thm_C28 == []C28_Inv /\ [][C28_Step]_vars

\* execute sleeps after a pass over two wallets in which one task timed
\* out and the other was cancelled
Wit_C28 ==
    /\ epc = "sleeping" /\ Len(wallets) >= 2
    /\ \E t, u \in Tasks : tres[t] = "timeout" /\ tres[u] = "cancelled"

\* execute sleeps between two passes while a task function of the last pass,
\* abandoned by its cancelled sem_task, is still in the sleeps of its
\* finally blocks
Wit_C28_Abandoned ==
    /\ epc = "sleeping"
    /\ \E t \in Tasks : tres[t] = "cancelled" /\ orphan[twal[t]] > 0

\* task t takes a step of its action loop that is not the failover: an
\* action ends with a status or a caught exception, or the sleep of the
\* finally ends
LoopStep(t) ==
    \/ tpc[t] = "in_action" /\ tpc'[t] = "pace"
    \/ tpc[t] = "pace" /\ tpc'[t] \in {"in_action", "update"}

\* task t takes the failover path of its action loop
FailoverStep(t) ==
    tpc[t] = "in_action" /\ nfail'[twal[t]] = nfail[twal[t]] + 1

\* C33: in random_activity_task a step of the action loop that is not the
\* failover leaves every wallet's proxy (in memory and committed) and the
\* reserve files as they are; a cooldown column changes in such a step only
\* as the stored effect of the faucet or AI-chat action that just ended,
\* for the wallet of the task, never by the loop.  The failover path
\* changes the proxy of the task's wallet and the reserve file, and no
\* cooldown column and no other wallet's proxy.
C33_Step ==
    task_func = "random_activity_task" =>
       \A t \in Tasks \cap DOMAIN tpc' :
          LET w == twal[t] IN
          /\ LoopStep(t) =>
                /\ UNCHANGED <<proxy, db_proxy, files, snap, wallets>>
                /\ \A v \in Wallets \ {w} :
                      /\ next_faucet_time'[v] = next_faucet_time[v]
                      /\ next_ai_conversation_time'[v] = next_ai_conversation_time[v]
                /\ next_faucet_time'[w] # next_faucet_time[w]
                      => tpc[t] = "in_action"
                         /\ catalog[t][idx[t]].kind = "on_chain_faucet"
                /\ next_ai_conversation_time'[w] # next_ai_conversation_time[w]
                      => tpc[t] = "in_action"
                         /\ catalog[t][idx[t]].kind = "ai_agent_chat_flow"
          /\ FailoverStep(t) =>
                /\ UNCHANGED <<next_faucet_time, next_ai_conversation_time, snap, wallets>>
                /\ \A v \in Wallets \ {w} :
                      proxy'[v] = proxy[v] /\ db_proxy'[v] = db_proxy[v]
                /\ files'[ReserverFile] = files[ReserverFile]

Thm_C33 == [][C33_Step]_vars

\* an action of a task raised an exception that is not the transport
\* failure while the reserve pool had entries: the wallet still has its own
\* proxy and the pool is what it was at the start of the pass
Wit_C33 ==
    \E t \in Tasks :
       /\ task_func = "random_activity_task"
       /\ tpc[t] = "pace" /\ caught[t] = "Exception"
       /\ Len(Pool) >= 1 /\ Pool = pool0
       /\ proxy[twal[t]] = OwnProxy(twal[t]) /\ db_proxy[twal[t]] = OwnProxy(twal[t])

\* C35: the permits of the gate are conserved.  While a pass has tasks,
\* the free permits plus the tasks inside the gate are min(N, T) and no
\* count is negative; a task enters the gate by taking one free permit;
\* every step that ends a task inside the gate (by return, exception,
\* timeout or cancellation) frees one permit, and a task cancelled while it
\* waits for the gate frees none, having none; when the pass is over all
\* min(N, T) permits are free.
C35_Inv ==
    Tasks # {} =>
       /\ sem >= 0
       /\ sem + NInGate = GateSize(Len(wallets), threads)
       /\ PassOver => sem = GateSize(Len(wallets), threads)

C35_Step ==
    /\ \A t \in Tasks \cap DOMAIN tpc' :
          /\ (InGate(t) /\ tpc'[t] = "done")
                => /\ sem' = sem + 1
                   /\ tres'[t] \in {"returned", "failed", "timeout", "cancelled"}
          /\ (tpc[t] = "queued" /\ tpc'[t] = "done") => sem' = sem /\ tres'[t] = "cancelled"
          /\ (tpc[t] = "queued" /\ tpc'[t] \notin {"queued", "done"})
                => sem > 0 /\ sem' = sem - 1
    /\ (sem' # sem /\ epc' = epc)
          => \E t \in Tasks : tpc'[t] # tpc[t] /\ (tpc[t] = "queued" \/ tpc'[t] = "done")

Thm_C35 == []C35_Inv /\ [][C35_Step]_vars

\* with one permit for two wallets the first task was cancelled inside the
\* gate and the second one holds the permit it freed
Wit_C35 ==
    /\ epc = "gather" /\ threads = 1 /\ Len(wallets) = 2
    /\ \E t, u \in Tasks :
          /\ tpc[t] = "done" /\ tres[t] = "cancelled"
          /\ InGate(u) /\ sem = 0

\* the pass is over with every permit free after one task timed out and
\* the other raised
Wit_C35_Over ==
    /\ PassOver /\ sem = GateSize(Len(wallets), threads) /\ Len(wallets) = 2
    /\ \E t, u \in Tasks : tres[t] = "timeout" /\ tres[u] = "failed"

\* C36: under fair scheduling every pass completes.  A task that waits for
\* the gate gets inside it (or is cancelled from outside while it waits),
\* a task inside the gate ends, and the gather of the pass returns: execute
\* comes to sleep or returns.
C36_Served ==
    \A t \in 1..MaxWallets :
       (t \in Tasks /\ tpc[t] = "queued")
          ~> (t \in Tasks /\ (InGate(t) \/ (tpc[t] = "done" /\ tres[t] = "cancelled")))
C36_Ends ==
    \A t \in 1..MaxWallets :
       (t \in Tasks /\ InGate(t))
          ~> (t \in Tasks /\ tpc[t] = "done"
                /\ tres[t] \in {"returned", "failed", "timeout", "cancelled"})
C36_Gathered == (epc = "gather") ~> PassOver

Thm_C36 == C36_Served /\ C36_Ends /\ C36_Gathered

\* a pass over two wallets with one permit is over: each task got the gate
\* in its turn and ended, one by returning, one by an exception
Wit_C36 ==
    /\ PassOver /\ threads = 1 /\ Len(wallets) = 2
    /\ sem = 1
    /\ \E t, u \in Tasks : tres[t] = "returned" /\ tres[u] = "failed"

\* C37: the exit test of execute reads the pause drawn last.  The pause
\* changes only in the step that leaves a gather for the sleep, where it is
\* drawn from the configured range; execute leaves a gather by returning
\* exactly when the pause it holds then is 0, and by sleeping otherwise.  So
\* an execute called with a pause other than 0 returns only after a pass
\* that follows a drawn 0, and never when the range excludes 0.
C37_Inv ==
    /\ epc = "returned" => pause = 0
    /\ (epc = "returned" /\ pause0 # 0) => 0 \in pause_range[1]..pause_range[2]
    /\ (pause0 # 0 /\ 0 \notin pause_range[1]..pause_range[2])
          => epc # "returned" /\ pause # 0

C37_Step ==
    /\ pause' # pause
          => /\ epc = "gather" /\ epc' = "sleeping"
             /\ pause' \in pause_range[1]..pause_range[2]
    /\ (epc = "gather" /\ epc' # "gather")
          => /\ epc' = "returned" <=> pause = 0
             /\ epc' = "sleeping" <=> pause # 0
    /\ (epc = "sleeping" /\ epc' # "sleeping") => epc' = "pass_start" /\ pause' = pause
    /\ epc = "returned" => epc' = "returned"

Thm_C37 == []C37_Inv /\ [][C37_Step]_vars

\* an execute called with pause 1 has returned: a 0 was drawn after one
\* pass and the pass after it was the last
Wit_C37 ==
    /\ pause0 = 1 /\ pause_range = <<0, 1>>
    /\ epc = "returned" /\ pause = 0
    /\ Len(wallets) >= 2 /\ AllServed

\* an execute whose range excludes 0 sleeps after a pass
Wit_C37_Forever ==
    /\ pause0 = 1 /\ pause_range = <<1, 1>> /\ epc = "sleeping" /\ AllServed

\* C38: a random_activity_task that returned has had exactly one call of
\* update_db_by_user_info for its wallet in the pass.  The call is made by
\* the invocation that ran its catalog to the end, after its last action
\* and with none in flight, and that invocation ends with it; a restart
\* resets nothing of it and the outer invocations make no call while they
\* unwind, however many restarts there were.
C38_Inv ==
    task_func = "random_activity_task" =>
       \A t \in Tasks :
          LET w == twal[t] IN
          /\ nupd[w] <= 1
          /\ tres[t] = "returned" => nupd[w] = 1
          /\ (tpc[t] = "unwind" /\ how[t] = "returned") => nupd[w] = 1
          /\ tpc[t] \in {"queued", "sleep_start", "build", "in_action", "pace", "update"}
                => nupd[w] = 0

C38_Step ==
    task_func = "random_activity_task" =>
       \A t \in Tasks \cap DOMAIN tpc' :
          LET w == twal[t] IN
          /\ (epc' = epc /\ nupd'[w] # nupd[w])
                => /\ nupd'[w] = nupd[w] + 1
                   /\ tpc[t] = "update" /\ idx[t] = Len(catalog[t])
                   /\ Len(started[t]) = Len(catalog[t]) /\ inflight[w] = 0
                   /\ tpc'[t] \in {"done", "unwind"}
          /\ FailoverStep(t) => nupd'[w] = nupd[w] /\ tpc'[t] # "update"
          /\ tpc[t] = "unwind" => nupd'[w] = nupd[w]

Thm_C38 == []C38_Inv /\ [][C38_Step]_vars

\* a task restarted twice has returned through its outer invocations with
\* one update made
Wit_C38 ==
    \E t \in Tasks :
       /\ task_func = "random_activity_task"
       /\ tpc[t] = "done" /\ tres[t] = "returned"
       /\ nfail[twal[t]] = 2 /\ nupd[twal[t]] = 1

\* task t awaits the AI-chat action of its catalog at position idx[t]
InAiChat(t) == tpc[t] = "in_action" /\ catalog[t][idx[t]].kind = "ai_agent_chat_flow"

\* C39: when an AI-chat request is answered with 429, the wallet's
\* next_ai_conversation_time is set to now + 1441 minutes in that step and
\* the portal of the invocation is paused; the runner catches the exception
\* and goes on.  An AI-chat action awaited with the portal paused makes no
\* request (it cannot fail over and stores nothing) and returns the
\* rate-limit marker, logged as a warning.  A paused portal always has the
\* cooldown in the future, and a catalog built while the cooldown is in the
\* future has no AI-chat action.
C39_Inv ==
    \A t \in Tasks :
       LET w == twal[t] IN
       /\ paused[t] => /\ InFuture(next_ai_conversation_time[w], snap[w].now)
                       /\ next_ai_conversation_time[w] = snap[w].now + FaucetCooldown
       /\ (InAiChat(t) /\ ~paused[t])
             => ~InFuture(next_ai_conversation_time[w], snap[w].now)

C39_Step ==
    \A t \in Tasks \cap DOMAIN tpc' :
       LET w == twal[t] IN
       /\ (~paused[t] /\ paused'[t])
             => /\ InAiChat(t)
                /\ next_ai_conversation_time'[w] = snap[w].now + FaucetCooldown
                /\ tpc'[t] = "pace" /\ caught'[t] = "Exception" /\ level'[t] = "error"
                /\ catalog'[t] = catalog[t]
       /\ (InAiChat(t) /\ paused[t] /\ tpc'[t] # "in_action"
             /\ tres'[t] \notin {"timeout", "cancelled"}
             /\ how'[t] \notin {"timeout", "cancelled"})
             => /\ tpc'[t] = "pace"
                /\ status'[t] = RateStr /\ level'[t] = "warning" /\ paused'[t]
                /\ UNCHANGED <<next_ai_conversation_time, nfail, proxy, files>>
       /\ (tpc[t] = "build" /\ tpc'[t] = "in_action"
             /\ InFuture(next_ai_conversation_time[w], snap[w].now))
             => KindCount(catalog'[t], "ai_agent_chat_flow") = 0

Thm_C39 == []C39_Inv /\ [][C39_Step]_vars

\* the second AI-chat action of a catalog has returned the rate-limit
\* marker from the paused portal after the first one was answered with 429
Wit_C39 ==
    \E t \in Tasks :
       /\ tpc[t] = "pace" /\ paused[t]
       /\ catalog[t][idx[t]].kind = "ai_agent_chat_flow"
       /\ status[t] = RateStr /\ level[t] = "warning"
       /\ next_ai_conversation_time[twal[t]] = Now + FaucetCooldown
       /\ snap[twal[t]].next_ai_conversation_time = Now - 1

\* after the 429 the task failed over and its new invocation runs a
\* catalog without AI-chat actions
Wit_C39_Rebuilt ==
    \E t \in Tasks :
       /\ depth[t] >= 1 /\ tpc[t] = "in_action"
       /\ snap[twal[t]].ai_dialogs_count = 2
       /\ snap[twal[t]].next_ai_conversation_time = Now - 1
       /\ next_ai_conversation_time[twal[t]] = Now + FaucetCooldown
       /\ KindCount(catalog[t], "ai_agent_chat_flow") = 0

(***************************************************************************)
(* Properties of build_actions (SpecBuild)                                 *)
(***************************************************************************)
TierRank(kind) ==
    IF kind \in {"onboard_flow", "bind_twitter"} THEN 1
    ELSE IF kind = "send_native_from_safe" THEN 3
    ELSE 2

\* C6: the returned catalog is the immediate-priority list, then a
\* rearrangement of the middle list that drops and duplicates nothing, then
\* the tail list.
Thm_C6 ==
    bpc = "returned" =>
       LET c == bout.catalog
           t == Tiers(bin)
           a == Len(t.actions)
           b == Len(t.build_actions)
           e == Len(t.end_actions)
       IN /\ Len(c) = a + b + e
          /\ \A i, j \in 1..Len(c) : i < j => TierRank(c[i].kind) <= TierRank(c[j].kind)
          /\ SubSeq(c, 1, a) = t.actions
          /\ SubSeq(c, a + b + 1, a + b + e) = t.end_actions
          /\ {c[i] : i \in (a + 1)..(a + b)} = {t.build_actions[j] : j \in 1..b}
          /\ \A i, j \in 1..Len(c) : i # j => c[i].oid # c[j].oid

\* a catalog with all three tiers whose middle tier was rearranged
Wit_C6 ==
    /\ bpc = "returned"
    /\ bout.tiers[1] >= 1 /\ bout.tiers[2] >= 3 /\ bout.tiers[3] >= 1
    /\ SubSeq(bout.catalog, bout.tiers[1] + 1, bout.tiers[1] + bout.tiers[2])
          # Tiers(bin).build_actions

OnchainKinds == {"swap", "bridge", "create_account", "send_native_to_multisig",
                 "send_native_from_safe"}

\* C10 (as claimed): a wallet whose balance is zero before and after the
\* bootstrap never gets a catalog.
C10_Claim ==
    (bpc \in {"raised", "returned"} /\ bin.balance0 = 0 /\ bin.balance1 = 0) => bout.kind = "raise"

\* a catalog returned for a wallet whose balance stayed zero although swaps
\* were drawn
Wit_C10 ==
    /\ bpc = "returned"
    /\ bin.balance0 = 0 /\ bin.balance1 = 0 /\ bin.swaps_count > 0
    /\ Len(bout.catalog) >= 1

\* the faucet of the onboarding stored the cooldown and raised on the body
\* of its answer: the RuntimeError leaves the build with the cooldown moved
Wit_C10_Stored ==
    /\ bpc = "raised" /\ bout.exc = "RuntimeError"
    /\ bin.ob_raise = "on_chain_faucet_json"
    /\ bin.next_faucet_time = Now - 1
    /\ bout.nft = Now + FaucetCooldown

\* the build was cancelled in the sleep of line 183, after the onboarding
\* had stored the cooldown
Wit_C10_Suspended ==
    /\ bpc = "cancelled" /\ bout.exc = "CancelledError"
    /\ bin.balance0 = 0 /\ bin.ob_raise = "none"
    /\ bin.next_faucet_time = Now - 1
    /\ bout.nft = Now + FaucetCooldown

\* the onboarding returned and the balance re-fetch of line 186 raised: the
\* RuntimeError of line 192 leaves the build
Wit_C10_Refetch ==
    /\ bpc = "raised" /\ bout.exc = "RuntimeError"
    /\ bin.balance0 = 0 /\ bin.ob_raise = "balance"
    /\ onboard_to_portal(bin, bin.onboard_choice, bin.next_faucet_time).kind = "return"


\* C29: a catalog built for a user whose onboarding quiz is not completed
\* (the answer read at line 194) starts with the onboarding-quiz action,
\* which is its only one; the Twitter bind, when there is one, comes right
\* after it, and every action of the shuffled and of the tail list stands
\* behind both.
Thm_C29 ==
    (bpc = "returned" /\ ~bin.onboarding_quiz_completed) =>
       LET c == bout.catalog IN
       /\ Len(c) >= 1 /\ c[1].kind = "onboard_flow"
       /\ KindCount(c, "onboard_flow") = 1
       /\ bout.tiers[1] \in {1, 2}
       /\ \A i \in 1..Len(c) :
             /\ c[i].kind = "bind_twitter" => i = 2
             /\ i > bout.tiers[1] => c[i].kind \notin {"onboard_flow", "bind_twitter"}

\* the onboarding quiz leads a catalog that also has the Twitter bind,
\* shuffled actions and a tail action
Wit_C29 ==
    /\ bpc = "returned" /\ ~bin.onboarding_quiz_completed
    /\ bout.catalog[1].kind = "onboard_flow"
    /\ bout.tiers[2] >= 2 /\ bout.tiers[3] >= 1
    /\ bout.catalog[Len(bout.catalog)].kind = "send_native_from_safe"

\* C31: every catalog build_actions returns has exactly one social-points
\* grab; it stands in the shuffled part of the list (behind the immediate
\* tier, in front of the tail tier), was the last entry of the middle list
\* before the shuffle, and so the catalog is never empty.
Thm_C31 ==
    bpc = "returned" =>
       LET c == bout.catalog
           mid == Tiers(bin).build_actions
       IN /\ Len(c) >= 1
          /\ KindCount(c, "grab_points_social") = 1
          /\ \A i \in 1..Len(c) :
                c[i].kind = "grab_points_social"
                   => /\ bout.tiers[1] < i /\ i <= bout.tiers[1] + bout.tiers[2]
                      /\ c[i] = mid[Len(mid)]

\* the grab was shuffled to the front of a middle tier of three or more
\* actions, with an immediate and a tail action around the tier
Wit_C31 ==
    /\ bpc = "returned"
    /\ bout.tiers[1] >= 1 /\ bout.tiers[2] >= 3 /\ bout.tiers[3] >= 1
    /\ bout.catalog[bout.tiers[1] + 1].kind = "grab_points_social"

\* C32: a catalog with a withdraw-from-multisig action has at least two
\* deposit-to-multisig actions, and each of its withdraw actions stands
\* behind every deposit and behind every other action of the shuffled (and
\* of the immediate) tier.
Thm_C32 ==
    (bpc = "returned" /\ KindCount(bout.catalog, "send_native_from_safe") >= 1) =>
       LET c == bout.catalog IN
       /\ KindCount(c, "send_native_to_multisig") >= 2
       /\ \A i, j \in 1..Len(c) :
             (c[i].kind = "send_native_from_safe" /\ c[j].kind # "send_native_from_safe")
                => j < i
       /\ \A i \in 1..Len(c) :
             c[i].kind = "send_native_from_safe" <=> i > bout.tiers[1] + bout.tiers[2]

\* two withdraw actions close a catalog whose shuffle moved a deposit
\* behind the social-points grab
Wit_C32 ==
    /\ bpc = "returned"
    /\ KindCount(bout.catalog, "send_native_from_safe") = 2
    /\ \E i, j \in 1..Len(bout.catalog) :
          /\ i < j
          /\ bout.catalog[i].kind = "grab_points_social"
          /\ bout.catalog[j].kind = "send_native_to_multisig"

\* C30 (as claimed): a catalog built for a user with no badge minted has
\* one badge-claim action for every eligible badge of the list, and the
\* badge ids the actions pass to claim_badge are the ids of the eligible
\* badges, each passed by exactly one action.
C30_Claim ==
    (bpc = "returned" /\ ~bin.badges_minted) =>
       LET c == bout.catalog
           eb == EligibleBadges(bin)
       IN /\ KindCount(c, "claim_badge") = Len(eb)
          /\ \A k \in 1..Len(eb) :
                Cardinality({i \in 1..Len(c) :
                                c[i].kind = "claim_badge" /\ c[i].arg = eb[k].id}) = 1

\* the onboarding quiz and the Twitter bind lead a catalog with shuffled
\* actions behind them
Wit_C29_Bind ==
    /\ bpc = "returned" /\ ~bin.onboarding_quiz_completed
    /\ Len(bout.catalog) >= 4
    /\ bout.catalog[1].kind = "onboard_flow" /\ bout.catalog[2].kind = "bind_twitter"

\* the faucet threshold the wallet holds when line 227 reads it
GateNft(in) == Bootstrap(in, in.next_faucet_time).nft

\* C15 (as claimed): a returned catalog holds the on-chain-faucet action
\* iff the faucet threshold is <= now, and an AI-chat action iff the AI
\* threshold is <= now.
C15_Claim ==
    bpc = "returned" =>
       /\ KindCount(bout.catalog, "on_chain_faucet") >= 1 <=> GateNft(bin) <= bin.now
       /\ bin.next_ai_conversation_time # NoneTime
             => (KindCount(bout.catalog, "ai_agent_chat_flow") >= 1
                    <=> bin.next_ai_conversation_time <= bin.now)

\* what the gates do hold: a returned catalog holds the on-chain-faucet
\* action iff the faucet threshold is <= now, and the drawn number of
\* AI-chat actions, which may be 0, when the AI threshold is <= now, none
\* when it is later
C15_Counts ==
    bpc = "returned" =>
       /\ KindCount(bout.catalog, "on_chain_faucet")
             = (IF GateNft(bin) <= bin.now THEN 1 ELSE 0)
       /\ bin.next_ai_conversation_time # NoneTime
             => KindCount(bout.catalog, "ai_agent_chat_flow")
                   = (IF bin.next_ai_conversation_time <= bin.now
                      THEN bin.ai_dialogs_count ELSE 0)

\* the thresholds equal now: both gated actions are in the catalog
Wit_C15 ==
    /\ bpc = "returned"
    /\ bin.next_faucet_time = bin.now /\ bin.next_ai_conversation_time = bin.now
    /\ KindCount(bout.catalog, "on_chain_faucet") = 1
    /\ KindCount(bout.catalog, "ai_agent_chat_flow") >= 1

\* C16 (as claimed): a build whose collaborators all answer raises no error
\* when a cooldown is None, and includes the action the cooldown gates.
C16_Claim ==
    (/\ bpc \in {"raised", "returned"}
     /\ bin.ob_raise = "none" /\ bin.b_raise = "none"
     /\ bin.next_faucet_time = NoneTime \/ bin.next_ai_conversation_time = NoneTime)
    => /\ bout.kind = "return"
       /\ bin.next_faucet_time = NoneTime
             => KindCount(bout.catalog, "on_chain_faucet") = 1
       /\ bin.next_ai_conversation_time = NoneTime
             => KindCount(bout.catalog, "ai_agent_chat_flow") = bin.ai_dialogs_count

\* C17 (as claimed): with the faucet threshold in the future, the AI
\* threshold in the past and a positive balance, the catalog has no
\* on-chain-faucet action, an AI-chat action and a swap action.
C17_Claim ==
    (/\ bpc = "returned"
     /\ bin.balance0 > 0
     /\ bin.next_faucet_time = bin.now + 60
     /\ bin.next_ai_conversation_time = bin.now - 60)
    => /\ KindCount(bout.catalog, "on_chain_faucet") = 0
       /\ KindCount(bout.catalog, "ai_agent_chat_flow") >= 1
       /\ KindCount(bout.catalog, "swap") >= 1


(***************************************************************************)
(* Properties of activity() (SpecActivity)                                 *)
(***************************************************************************)
\* the 1-based positions of the database rows in a list of selected wallets
PositionsOf(sel, db) == {i \in 1..Len(db) : InSeq(db[i], sel)}

\* C34: activity() goes on with the wallets at the selected 1-based
\* positions, in database order and each once: the positions start..end
\* when the range filter is not [0, 0] (whatever the exact list holds),
\* else the positions of the exact list when it is not empty, else all.
Thm_C34 ==
    apc = "selected" =>
       LET n == Len(ain.db)
           r == ain.range_wallets
           want == IF r # <<0, 0>> THEN {i \in 1..n : r[1] <= i /\ i <= r[2]}
                   ELSE IF ain.exact_wallets # {} THEN (1..n) \cap ain.exact_wallets
                   ELSE 1..n
       IN /\ PositionsOf(aout, ain.db) = want
          /\ Len(aout) = Cardinality(want)
          /\ \A i, j \in 1..Len(aout) :
                i < j => \E a, b \in 1..n : a < b /\ ain.db[a] = aout[i] /\ ain.db[b] = aout[j]

\* a range filter picked the second and third of three wallets although
\* the exact list names the first
Wit_C34 ==
    /\ apc = "selected"
    /\ Len(ain.db) = 3 /\ ain.range_wallets = <<2, 3>> /\ ain.exact_wallets = {1}
    /\ aout = <<"wb", "wc">>

\* with the range filter at [0, 0] the exact list picked the first and the
\* third wallet
Wit_C34_Exact ==
    /\ apc = "selected"
    /\ ain.range_wallets = <<0, 0>> /\ ain.exact_wallets = {1, 3}
    /\ aout = <<"wa", "wc">>

====
